---- MODULE Spec2Model ----
(***************************************************************************)
(* Model of the questionnaire scoring engine of infographic/utils:         *)
(* string_handling.py (answer normaliser and scale validator), scoring.py  *)
(* (PSQI, HADS and sum-mapped scorers) and process.py / processors.py (the *)
(* per-instrument processors).                                             *)
(*                                                                         *)
(* The library is a set of pure functions over JSON-decoded values.  The   *)
(* state of the model is one call of a client: the function and arguments  *)
(* (call), whether the call has run (pc) and what it produced (ret): a     *)
(* returned value or a raised exception.                                   *)
(***************************************************************************)
EXTENDS Integers, Sequences, FiniteSets, TLC

VARIABLES call, pc, ret

vars == <<call, pc, ret>>

(***************************************************************************)
(* JSON-decoded Python values.  Every value is a record of one shape:      *)
(*   t : the Python type ("none", "bool", "int", "float", "str", "list")   *)
(*   n, d : the number n/d (d > 0) of a bool, int or float                 *)
(*   s : the characters of a str                                           *)
(* A float is kept as the exact rational it denotes.                       *)
(***************************************************************************)
PyNone == [t |-> "none", n |-> 0, d |-> 1, s |-> <<>>]

PyList == [t |-> "list", n |-> 0, d |-> 1, s |-> <<>>]

PyBool(b) == [t |-> "bool", n |-> IF b THEN 1 ELSE 0, d |-> 1, s |-> <<>>]

PyInt(i) == [t |-> "int", n |-> i, d |-> 1, s |-> <<>>]

PyFloat(num, den) == [t |-> "float", n |-> num, d |-> den, s |-> <<>>]

PyStr(chars) == [t |-> "str", n |-> 0, d |-> 1, s |-> chars]

\* isinstance(v, int): bool is a subclass of int in Python.
IsInstanceInt(v) == v.t \in {"int", "bool"}

\* isinstance(v, (int, float))
IsInstanceNumber(v) == v.t \in {"int", "bool", "float"}

IsInstanceStr(v) == v.t = "str"

(***************************************************************************)
(* Exact rational numbers [n, d] with d > 0, the values of Python floats.  *)
(***************************************************************************)
Rat(num, den) == [n |-> num, d |-> den]

RatLt(a, b) == a.n * b.d < b.n * a.d

RatLe(a, b) == a.n * b.d <= b.n * a.d

RatEq(a, b) == a.n * b.d = b.n * a.d

RatOfInt(i) == Rat(i, 1)

\* (low + high) / 2.0
RatMid(low, high) == Rat(low.n * high.d + high.n * low.d, 2 * low.d * high.d)

(***************************************************************************)
(* Outcome of a call: a returned value, or a raised exception with the     *)
(* kind of its message and the field name the message carries.             *)
(***************************************************************************)
NoVal == "no value"

Return(v) == [ok |-> TRUE, val |-> v, exc |-> "", msg |-> "", key |-> ""]

Raise(e, m, k) == [ok |-> FALSE, val |-> NoVal, exc |-> e, msg |-> m, key |-> k]

(***************************************************************************)
(* Python string primitives, on sequences of one-character strings.        *)
(***************************************************************************)
DigitChars == <<"0", "1", "2", "3", "4", "5", "6", "7", "8", "9">>

IsDigitChar(c) == \E i \in 1..Len(DigitChars) : DigitChars[i] = c

DigitVal(c) == (CHOOSE i \in 1..Len(DigitChars) : DigitChars[i] = c) - 1

\* str.isdigit(): at least one character, all of them digits.
IsDigit(chars) == Len(chars) > 0 /\ \A i \in 1..Len(chars) : IsDigitChar(chars[i])

RECURSIVE Pow10(_)
Pow10(k) == IF k = 0 THEN 1 ELSE 10 * Pow10(k - 1)

\* int(chars) for a string of decimal digits.
RECURSIVE DigitsToInt(_)
DigitsToInt(chars) ==
    IF Len(chars) = 0 THEN 0
    ELSE 10 * DigitsToInt(SubSeq(chars, 1, Len(chars) - 1)) + DigitVal(chars[Len(chars)])

\* "-" in chars
HasHyphen(chars) == \E i \in 1..Len(chars) : chars[i] = "-"

\* chars.split("-")
RECURSIVE SplitHyphen(_)
SplitHyphen(chars) ==
    IF ~HasHyphen(chars) THEN <<chars>>
    ELSE LET i == CHOOSE j \in 1..Len(chars) :
                      chars[j] = "-" /\ \A k \in 1..(j - 1) : chars[k] # "-"
         IN  <<SubSeq(chars, 1, i - 1)>> \o SplitHyphen(SubSeq(chars, i + 1, Len(chars)))

\* Characters of chars that are not c, in order.
RECURSIVE Without(_, _)
Without(chars, c) ==
    IF Len(chars) = 0 THEN <<>>
    ELSE IF Head(chars) = c THEN Without(Tail(chars), c)
    ELSE <<Head(chars)>> \o Without(Tail(chars), c)

\* Position of the first c in chars, 0 when there is none.
IndexOf(chars, c) ==
    IF \E i \in 1..Len(chars) : chars[i] = c
    THEN CHOOSE i \in 1..Len(chars) : chars[i] = c /\ \A k \in 1..(i - 1) : chars[k] # c
    ELSE 0

(***************************************************************************)
(* float(chars) of the Python built-in, for strings of digits, "." and     *)
(* letters: a decimal literal has at least one digit and at most one ".";  *)
(* anything else raises ValueError.  (Signs, exponents, blanks, "inf" and  *)
(* "nan" are outside the alphabet of the model.)                           *)
(***************************************************************************)
IsFloatLiteral(chars) ==
    /\ \A i \in 1..Len(chars) : IsDigitChar(chars[i]) \/ chars[i] = "."
    /\ Len(chars) - Len(Without(chars, ".")) <= 1
    /\ Len(Without(chars, ".")) >= 1

FloatLiteralValue(chars) ==
    LET dot == IndexOf(chars, ".")
        frac == IF dot = 0 THEN 0 ELSE Len(chars) - dot
    IN  Rat(DigitsToInt(Without(chars, ".")), Pow10(frac))

builtin_float(chars) ==
    IF IsFloatLiteral(chars) THEN Return(FloatLiteralValue(chars))
    ELSE Raise("ValueError", "could not convert string to float", "")

(***************************************************************************)
(* string_handling.valid_and_digit                                         *)
(***************************************************************************)
valid_and_digit(json_response, lower_bound, upper_bound, response_key) ==
    IF IsInstanceInt(json_response)
    THEN Return(json_response.n)
    ELSE IF IsInstanceStr(json_response) /\ IsDigit(json_response.s)
    THEN Return(DigitsToInt(json_response.s))
    ELSE IF /\ IsInstanceNumber(json_response)
            /\ \/ RatLt(json_response, RatOfInt(lower_bound))
               \/ RatLt(RatOfInt(upper_bound), json_response)
    THEN Raise("ValueError", "out of range", response_key)
    ELSE Raise("ValueError", "invalid value", response_key)

(***************************************************************************)
(* string_handling.split_the_difference                                    *)
(***************************************************************************)
\* Faulty variant: the sum of the two ends of a range, not halved.
split_the_difference_unhalved(json_response, response_key) ==
    IF IsInstanceNumber(json_response)
    THEN Return(Rat(json_response.n, json_response.d))
    ELSE IF IsInstanceStr(json_response) /\ HasHyphen(json_response.s)
    THEN LET parts == SplitHyphen(json_response.s)
             low == builtin_float(parts[1])
             high == builtin_float(parts[2])
         IN  IF ~low.ok THEN low
             ELSE IF ~high.ok THEN high
             ELSE Return(Rat(low.val.n * high.val.d + high.val.n * low.val.d,
                             low.val.d * high.val.d))
    ELSE Raise("ValueError", "invalid value", response_key)

\* Faulty variant: a string of digits is parsed as a number.
split_the_difference_digits(json_response, response_key) ==
    IF IsInstanceNumber(json_response)
    THEN Return(Rat(json_response.n, json_response.d))
    ELSE IF IsInstanceStr(json_response) /\ IsDigit(json_response.s)
    THEN Return(RatOfInt(DigitsToInt(json_response.s)))
    ELSE IF IsInstanceStr(json_response) /\ HasHyphen(json_response.s)
    THEN LET parts == SplitHyphen(json_response.s)
             low == builtin_float(parts[1])
             high == builtin_float(parts[2])
         IN  IF ~low.ok THEN low
             ELSE IF ~high.ok THEN high
             ELSE Return(RatMid(low.val, high.val))
    ELSE Raise("ValueError", "invalid value", response_key)

split_the_difference(json_response, response_key) ==
    IF IsInstanceNumber(json_response)
    THEN Return(Rat(json_response.n, json_response.d))
    ELSE IF IsInstanceStr(json_response) /\ HasHyphen(json_response.s)
    THEN LET parts == SplitHyphen(json_response.s)
             low == builtin_float(parts[1])
             high == builtin_float(parts[2])
         IN  IF ~low.ok THEN low
             ELSE IF ~high.ok THEN high
             ELSE Return(RatMid(low.val, high.val))
    ELSE Raise("ValueError", "invalid value", response_key)

(***************************************************************************)
(* Answer mappings: a Python dict from question-id to raw answer is a      *)
(* function whose domain is the set of keys present.                       *)
(***************************************************************************)
\* The elements of a sequence.
Range(seq) == {seq[i] : i \in 1..Len(seq)}

\* dict.get(key): None when the key is absent.
Get(answers, key) == IF key \in DOMAIN answers THEN answers[key] ELSE PyNone

\* dict.get(key, default)
GetDefault(answers, key, default) ==
    IF key \in DOMAIN answers THEN answers[key] ELSE default

(***************************************************************************)
(* string_handling.split_the_difference_datetime is imported by scoring.py *)
(* but is not part of the source tree.  It is modelled from the            *)
(* specification's time-range variant of the normaliser and from its call  *)
(* sites in psqi_c5_sleep_efficiency: it takes one clock time "HH:MM" or   *)
(* one range "HH:MM-HH:MM" and returns a point in time, here in minutes    *)
(* after the midnight of the reference day; the end of a range that is     *)
(* earlier than its start is taken to be 24 hours later.                   *)
(***************************************************************************)
IsClock(chars) ==
    /\ Len(chars) = 5
    /\ chars[3] = ":"
    /\ \A i \in {1, 2, 4, 5} : IsDigitChar(chars[i])
    /\ DigitsToInt(SubSeq(chars, 1, 2)) <= 23
    /\ DigitsToInt(SubSeq(chars, 4, 5)) <= 59

ClockMinutes(chars) ==
    60 * DigitsToInt(SubSeq(chars, 1, 2)) + DigitsToInt(SubSeq(chars, 4, 5))

split_the_difference_datetime(json_response, response_key) ==
    IF IsInstanceStr(json_response) /\ IsClock(json_response.s)
    THEN Return(RatOfInt(ClockMinutes(json_response.s)))
    ELSE IF IsInstanceStr(json_response) /\ HasHyphen(json_response.s)
    THEN LET parts == SplitHyphen(json_response.s)
         IN  IF Len(parts) = 2 /\ IsClock(parts[1]) /\ IsClock(parts[2])
             THEN LET low == ClockMinutes(parts[1])
                      end == ClockMinutes(parts[2])
                      high == IF end < low THEN end + 24 * 60 ELSE end
                  IN  Return(RatMid(RatOfInt(low), RatOfInt(high)))
             ELSE Raise("ValueError", "invalid value", response_key)
    ELSE Raise("ValueError", "invalid value", response_key)

(***************************************************************************)
(* scoring.py: the seven PSQI component scorers.  Each scorer is written   *)
(* as the reads and conversions of its answers, handed to an operator that *)
(* holds the rest of the function body; an exception raised by a           *)
(* conversion leaves the function at once.                                 *)
(***************************************************************************)
\* Faulty variant: the lower end of the 6-7 hours bucket is exclusive.
psqi_c1_bucket_open(q4) ==
    IF ~q4.ok THEN q4
    ELSE IF RatLe(RatOfInt(7), q4.val) THEN Return(0)
    ELSE IF RatLt(RatOfInt(6), q4.val) /\ RatLt(q4.val, RatOfInt(7)) THEN Return(1)
    ELSE IF RatLe(RatOfInt(5), q4.val) /\ RatLt(q4.val, RatOfInt(6)) THEN Return(2)
    ELSE IF RatLt(q4.val, RatOfInt(5)) THEN Return(3)
    ELSE Raise("ValueError", "invalid value", "q4_sleep_hours")

\* psqi_c1_duration from the converted q4 on (lines 31-40).
psqi_c1_bucket(q4) ==
    IF ~q4.ok THEN q4
    ELSE IF RatLe(RatOfInt(7), q4.val) THEN Return(0)
    ELSE IF RatLe(RatOfInt(6), q4.val) /\ RatLt(q4.val, RatOfInt(7)) THEN Return(1)
    ELSE IF RatLe(RatOfInt(5), q4.val) /\ RatLt(q4.val, RatOfInt(6)) THEN Return(2)
    ELSE IF RatLt(q4.val, RatOfInt(5)) THEN Return(3)
    ELSE Raise("ValueError", "invalid value", "q4_sleep_hours")

psqi_c1_duration(psqi_answers) ==
    psqi_c1_bucket(split_the_difference(Get(psqi_answers, "q4_sleep_hours"),
                                        "q4_sleep_hours"))

disturbance_questions ==
    << "q5b_wake_during_night", "q5c_bathroom", "q5d_cant_breathe", "q5e_snore",
       "q5f_cold", "q5g_hot", "q5h_bad_dreams", "q5i_pain" >>

\* The loop of psqi_c2_disturbance from its i-th question on, total_score so far.
RECURSIVE psqi_c2_loop(_, _, _)
psqi_c2_loop(psqi_answers, i, total_score) ==
    IF i > Len(disturbance_questions) THEN Return(total_score)
    ELSE LET q == disturbance_questions[i]
             val == valid_and_digit(Get(psqi_answers, q), 0, 3, q)
         IN  IF ~val.ok THEN val
             ELSE psqi_c2_loop(psqi_answers, i + 1, total_score + val.val)

\* psqi_c2_disturbance after its loop (lines 82-91).
psqi_c2_bucket(total_score) ==
    IF ~total_score.ok THEN total_score
    ELSE IF total_score.val = 0 THEN Return(0)
    ELSE IF 1 <= total_score.val /\ total_score.val <= 8 THEN Return(1)
    ELSE IF 9 <= total_score.val /\ total_score.val <= 16 THEN Return(2)
    ELSE IF 17 <= total_score.val /\ total_score.val <= 24 THEN Return(3)
    ELSE Raise("ValueError", "invalid value", "total disturbance score")

psqi_c2_disturbance(psqi_answers) == psqi_c2_bucket(psqi_c2_loop(psqi_answers, 1, 0))

\* Faulty variant: a latency of exactly 15 minutes falls into the second band.
psqi_c3_q2new_shifted(q2) ==
    IF RatLe(RatOfInt(0), q2) /\ RatLt(q2, RatOfInt(15)) THEN 0
    ELSE IF RatLe(RatOfInt(15), q2) /\ RatLe(q2, RatOfInt(30)) THEN 1
    ELSE IF RatLt(RatOfInt(30), q2) /\ RatLe(q2, RatOfInt(60)) THEN 2
    ELSE IF RatLt(RatOfInt(60), q2) THEN 3
    ELSE -1

\* The helper score q2new of psqi_c3_latency (lines 120-130); -1 stands for
\* the branch that raises.
psqi_c3_q2new(q2) ==
    IF RatLe(RatOfInt(0), q2) /\ RatLe(q2, RatOfInt(15)) THEN 0
    ELSE IF RatLt(RatOfInt(15), q2) /\ RatLe(q2, RatOfInt(30)) THEN 1
    ELSE IF RatLt(RatOfInt(30), q2) /\ RatLe(q2, RatOfInt(60)) THEN 2
    ELSE IF RatLt(RatOfInt(60), q2) THEN 3
    ELSE -1

\* The second stage of psqi_c3_latency (lines 132-141).
psqi_c3_bucket(q5a, q2new) ==
    IF q2new = -1 THEN Raise("ValueError", "invalid value", "q2_sleep_latency_min")
    ELSE IF q5a + q2new = 0 THEN Return(0)
    ELSE IF 1 <= q5a + q2new /\ q5a + q2new <= 2 THEN Return(1)
    ELSE IF 3 <= q5a + q2new /\ q5a + q2new <= 4 THEN Return(2)
    ELSE IF 5 <= q5a + q2new /\ q5a + q2new <= 6 THEN Return(3)
    ELSE Raise("ValueError", "invalid value", "q2_sleep_latency_min or q5a")

\* psqi_c3_latency from the converted q2 and q5a on.
psqi_c3_body(q2, q5a) ==
    IF ~q2.ok THEN q2
    ELSE IF ~q5a.ok THEN q5a
    ELSE psqi_c3_bucket(q5a.val, psqi_c3_q2new(q2.val))

psqi_c3_latency(psqi_answers) ==
    psqi_c3_body(
        split_the_difference(Get(psqi_answers, "q2_sleep_latency_min"),
                             "q2_sleep_latency_min"),
        valid_and_digit(Get(psqi_answers, "q5a_cant_sleep_30min"), 0, 3,
                        "q5a_cant_sleep_30min"))

\* Faulty variant: a total of 3 still falls into the second band.
psqi_c4_bucket_wide(total_score) ==
    IF total_score = 0 THEN Return(0)
    ELSE IF 1 <= total_score /\ total_score <= 3 THEN Return(1)
    ELSE IF 4 <= total_score /\ total_score <= 4 THEN Return(2)
    ELSE IF 5 <= total_score /\ total_score <= 6 THEN Return(3)
    ELSE Raise("ValueError", "invalid value", "total day dysfunction score")

\* The bucketing of psqi_c4_day_dysfunction (lines 174-185).
psqi_c4_bucket(total_score) ==
    IF total_score = 0 THEN Return(0)
    ELSE IF 1 <= total_score /\ total_score <= 2 THEN Return(1)
    ELSE IF 3 <= total_score /\ total_score <= 4 THEN Return(2)
    ELSE IF 5 <= total_score /\ total_score <= 6 THEN Return(3)
    ELSE Raise("ValueError", "invalid value", "total day dysfunction score")

\* psqi_c4_day_dysfunction from the converted q8 and q9 on.
psqi_c4_body(q8, q9) ==
    IF ~q8.ok THEN q8
    ELSE IF ~q9.ok THEN q9
    ELSE psqi_c4_bucket(q8.val + q9.val)

psqi_c4_day_dysfunction(psqi_answers) ==
    psqi_c4_body(
        valid_and_digit(Get(psqi_answers, "q8_trouble_staying_awake"), 0, 3,
                        "q8_trouble_staying_awake"),
        valid_and_digit(Get(psqi_answers, "q9_low_enthusiasm"), 0, 3,
                        "q9_low_enthusiasm"))

\* (waketime - bedtime).total_seconds() / 3600.0, of two points in time in minutes.
total_time_in_bed_hours(bedtime, waketime) ==
    Rat(waketime.n * bedtime.d - bedtime.n * waketime.d, 60 * waketime.d * bedtime.d)

\* (hours_slept / total_time_in_bed_hours) * 100.0
sleep_efficiency(hours_slept, time_in_bed) ==
    Rat(hours_slept.n * time_in_bed.d * 100, hours_slept.d * time_in_bed.n)

\* Faulty variant: an efficiency of exactly 85 falls into the second band.
psqi_c5_bucket_open(efficiency) ==
    IF RatLt(RatOfInt(85), efficiency) THEN Return(0)
    ELSE IF RatLe(RatOfInt(75), efficiency) /\ RatLe(efficiency, RatOfInt(85))
    THEN Return(1)
    ELSE IF RatLe(RatOfInt(65), efficiency) /\ RatLt(efficiency, RatOfInt(75))
    THEN Return(2)
    ELSE IF RatLt(efficiency, RatOfInt(65)) THEN Return(3)
    ELSE Raise("ValueError", "invalid value", "sleep efficiency")

\* The bucketing of psqi_c5_sleep_efficiency (lines 228-237).
psqi_c5_bucket(efficiency) ==
    IF RatLe(RatOfInt(85), efficiency) THEN Return(0)
    ELSE IF RatLe(RatOfInt(75), efficiency) /\ RatLt(efficiency, RatOfInt(85))
    THEN Return(1)
    ELSE IF RatLe(RatOfInt(65), efficiency) /\ RatLt(efficiency, RatOfInt(75))
    THEN Return(2)
    ELSE IF RatLt(efficiency, RatOfInt(65)) THEN Return(3)
    ELSE Raise("ValueError", "invalid value", "sleep efficiency")

\* Faulty variant: the assertion has no upper limit.
psqi_c5_checked_unbounded(time_in_bed, q4) ==
    IF ~RatLt(RatOfInt(0), time_in_bed)
    THEN Raise("AssertionError", "invalid time in bed", "")
    ELSE IF ~q4.ok THEN q4
    ELSE psqi_c5_bucket(sleep_efficiency(q4.val, time_in_bed))

\* psqi_c5_sleep_efficiency from the assertion on the time in bed on
\* (lines 218-237); q4 is the converted sleep hours.
psqi_c5_checked(time_in_bed, q4) ==
    IF ~(RatLt(RatOfInt(0), time_in_bed) /\ RatLe(time_in_bed, RatOfInt(24)))
    THEN Raise("AssertionError", "invalid time in bed", "")
    ELSE IF ~q4.ok THEN q4
    ELSE psqi_c5_bucket(sleep_efficiency(q4.val, time_in_bed))

\* psqi_c5_sleep_efficiency from the converted bedtime, wake time and q4 on.
psqi_c5_body(bedtime, waketime, q4) ==
    IF ~bedtime.ok THEN bedtime
    ELSE IF ~waketime.ok THEN waketime
    ELSE psqi_c5_checked(total_time_in_bed_hours(bedtime.val, waketime.val), q4)

psqi_c5_sleep_efficiency(psqi_answers) ==
    psqi_c5_body(
        split_the_difference_datetime(Get(psqi_answers, "q1_bedtime"), "q1_bedtime"),
        split_the_difference_datetime(Get(psqi_answers, "q3_wake_time"), "q3_wake_time"),
        split_the_difference(Get(psqi_answers, "q4_sleep_hours"), "q4_sleep_hours"))

psqi_c6_overall_sleep_quality(psqi_answers) ==
    valid_and_digit(Get(psqi_answers, "q6_overall_quality"), 0, 3, "q6_overall_quality")

psqi_c7_medication(psqi_answers) ==
    valid_and_digit(Get(psqi_answers, "q7_sleep_medication"), 0, 3, "q7_sleep_medication")

(***************************************************************************)
(* process.py: process_psqi_response.  The components are computed in the  *)
(* order C1..C7; an exception of a component leaves the function at once.  *)
(***************************************************************************)
\* The score of a component, 0 when the component raised.
ScoreOr0(c) == IF c.ok THEN c.val ELSE 0

\* Faulty variant: a component that raised is scored 0 and the rest is kept.
process_psqi_result_partial(c1, c2, c3, c4, c5, c6, c7) ==
    Return([component_scores |->
               [C1_duration |-> ScoreOr0(c1),
                C2_disturbance |-> ScoreOr0(c2),
                C3_latency |-> ScoreOr0(c3),
                C4_day_dysfunction |-> ScoreOr0(c4),
                C5_sleep_efficiency |-> ScoreOr0(c5),
                C6_overall_sleep_quality |-> ScoreOr0(c6),
                C7_medication |-> ScoreOr0(c7)],
            overall_score |->
                ScoreOr0(c1) + ScoreOr0(c2) + ScoreOr0(c3) + ScoreOr0(c4)
                    + ScoreOr0(c5) + ScoreOr0(c6) + ScoreOr0(c7)])

\* process_psqi_response from the seven component outcomes on (lines 78-93).
process_psqi_result(c1, c2, c3, c4, c5, c6, c7) ==
    IF ~c1.ok THEN c1
    ELSE IF ~c2.ok THEN c2
    ELSE IF ~c3.ok THEN c3
    ELSE IF ~c4.ok THEN c4
    ELSE IF ~c5.ok THEN c5
    ELSE IF ~c6.ok THEN c6
    ELSE IF ~c7.ok THEN c7
    ELSE Return([component_scores |->
                    [C1_duration |-> c1.val,
                     C2_disturbance |-> c2.val,
                     C3_latency |-> c3.val,
                     C4_day_dysfunction |-> c4.val,
                     C5_sleep_efficiency |-> c5.val,
                     C6_overall_sleep_quality |-> c6.val,
                     C7_medication |-> c7.val],
                 overall_score |->
                     c1.val + c2.val + c3.val + c4.val + c5.val + c6.val + c7.val])

process_psqi_response(response) ==
    process_psqi_result(
        psqi_c1_duration(response), psqi_c2_disturbance(response),
        psqi_c3_latency(response), psqi_c4_day_dysfunction(response),
        psqi_c5_sleep_efficiency(response), psqi_c6_overall_sleep_quality(response),
        psqi_c7_medication(response))

(***************************************************************************)
(* scoring.py: the HADS subscales and the sum-mapped scorer.               *)
(***************************************************************************)
anxiety_questions == <<"A1", "A2", "A3", "A4", "A5", "A6", "A7">>

depression_questions == <<"D1", "D2", "D3", "D4", "D5", "D6", "D7">>

\* The loop of hads_anxiety from its i-th question on.
RECURSIVE hads_anxiety_loop(_, _, _)
hads_anxiety_loop(hads_answers, i, total_score) ==
    IF i > Len(anxiety_questions) THEN Return(total_score)
    ELSE LET q == anxiety_questions[i]
             val == valid_and_digit(Get(hads_answers, q), 0, 3, q)
             scored == IF q = "A4" THEN 3 - val.val ELSE val.val
         IN  IF ~val.ok THEN val
             ELSE hads_anxiety_loop(hads_answers, i + 1, total_score + scored)

hads_anxiety(hads_answers) == hads_anxiety_loop(hads_answers, 1, 0)

\* Faulty variant: every item of the depression subscale is reverse-scored.
RECURSIVE hads_depression_loop_all_reversed(_, _, _)
hads_depression_loop_all_reversed(hads_answers, i, total_score) ==
    IF i > Len(depression_questions) THEN Return(total_score)
    ELSE LET q == depression_questions[i]
             val == valid_and_digit(Get(hads_answers, q), 0, 3, q)
         IN  IF ~val.ok THEN val
             ELSE hads_depression_loop_all_reversed(hads_answers, i + 1,
                                                    total_score + (3 - val.val))

\* The loop of hads_depression from its i-th question on.
RECURSIVE hads_depression_loop(_, _, _)
hads_depression_loop(hads_answers, i, total_score) ==
    IF i > Len(depression_questions) THEN Return(total_score)
    ELSE LET q == depression_questions[i]
             val == valid_and_digit(Get(hads_answers, q), 0, 3, q)
             scored == IF q \in {"D1", "D2", "D3", "D6", "D7"}
                       THEN 3 - val.val ELSE val.val
         IN  IF ~val.ok THEN val
             ELSE hads_depression_loop(hads_answers, i + 1, total_score + scored)

hads_depression(hads_answers) == hads_depression_loop(hads_answers, 1, 0)

(***************************************************************************)
(* scoring.py: the Danish Medicine Adherence Scale.                        *)
(***************************************************************************)
UpperLetters ==
    <<"A", "B", "C", "D", "E", "F", "G", "H", "I", "J", "K", "L", "M",
      "N", "O", "P", "Q", "R", "S", "T", "U", "V", "W", "X", "Y", "Z">>

LowerLetters ==
    <<"a", "b", "c", "d", "e", "f", "g", "h", "i", "j", "k", "l", "m",
      "n", "o", "p", "q", "r", "s", "t", "u", "v", "w", "x", "y", "z">>

\* The lower-case form of one character.
LowerChar(c) ==
    IF \E i \in 1..Len(UpperLetters) : UpperLetters[i] = c
    THEN LowerLetters[CHOOSE i \in 1..Len(UpperLetters) : UpperLetters[i] = c]
    ELSE c

\* str.lower()
str_lower(chars) == [i \in 1..Len(chars) |-> LowerChar(chars[i])]

binary_questions == <<"D4-1", "D4-2", "D4-3", "D4-6">>

\* The points of the frequency words of D4-4.
d4_4_score_map(word) ==
    CASE word = <<"n", "e", "v", "e", "r">> -> 0
      [] word = <<"r", "a", "r", "e", "l", "y">> -> 1
      [] word = <<"s", "o", "m", "e", "t", "i", "m", "e", "s">> -> 2
      [] word = <<"u", "s", "u", "a", "l", "l", "y">> -> 3
      [] word = <<"a", "l", "w", "a", "y", "s">> -> 4

\* Faulty variant: a binary answer that is not a text, or neither "yes" nor
\* "no", counts 0.
RECURSIVE dmas_binary_loop_lenient(_, _, _)
dmas_binary_loop_lenient(dmas_answers, i, total_score) ==
    IF i > Len(binary_questions) THEN Return(total_score)
    ELSE dmas_binary_loop_lenient(
             dmas_answers, i + 1,
             IF /\ IsInstanceStr(Get(dmas_answers, binary_questions[i]))
                /\ str_lower(Get(dmas_answers, binary_questions[i]).s) = <<"y", "e", "s">>
             THEN total_score + 1
             ELSE total_score)

\* The loop over the binary questions from the i-th question on; answer is
\* the lower-cased answer of the question where it is a string.
RECURSIVE dmas_binary_loop(_, _, _)
dmas_binary_loop(dmas_answers, i, total_score) ==
    IF i > Len(binary_questions) THEN Return(total_score)
    ELSE LET question == binary_questions[i]
             answer == str_lower(Get(dmas_answers, question).s)
         IN  IF ~IsInstanceStr(Get(dmas_answers, question))
             THEN Raise("AssertionError", "invalid answer type", question)
             ELSE IF answer \notin {<<"y", "e", "s">>, <<"n", "o">>}
             THEN Raise("AssertionError", "invalid answer", question)
             ELSE dmas_binary_loop(dmas_answers, i + 1,
                                   IF answer = <<"y", "e", "s">> THEN total_score + 1
                                   ELSE total_score)

\* Faulty variant: the points of D4-4 are added without the division by 4.
dmas_frequency_unscaled(total_score, d4_4_answer) ==
    IF ~total_score.ok THEN total_score
    ELSE IF ~IsInstanceStr(d4_4_answer)
    THEN Raise("AssertionError", "invalid answer type", "D4-4")
    ELSE IF str_lower(d4_4_answer.s)
                \notin {<<"n", "e", "v", "e", "r">>, <<"r", "a", "r", "e", "l", "y">>, <<"s", "o", "m", "e", "t", "i", "m", "e", "s">>, <<"u", "s", "u", "a", "l", "l", "y">>, <<"a", "l", "w", "a", "y", "s">>}
    THEN Raise("AssertionError", "invalid answer", "D4-4")
    ELSE Return(Rat(total_score.val + d4_4_score_map(str_lower(d4_4_answer.s)), 1))

\* danish_medicine_adherence_scale after the loop (lines 395-413): the score
\* total_score + points / 4 is a float.
dmas_frequency(total_score, d4_4_answer) ==
    IF ~total_score.ok THEN total_score
    ELSE IF ~IsInstanceStr(d4_4_answer)
    THEN Raise("AssertionError", "invalid answer type", "D4-4")
    ELSE IF str_lower(d4_4_answer.s)
                \notin {<<"n", "e", "v", "e", "r">>, <<"r", "a", "r", "e", "l", "y">>, <<"s", "o", "m", "e", "t", "i", "m", "e", "s">>, <<"u", "s", "u", "a", "l", "l", "y">>, <<"a", "l", "w", "a", "y", "s">>}
    THEN Raise("AssertionError", "invalid answer", "D4-4")
    ELSE Return(Rat(4 * total_score.val + d4_4_score_map(str_lower(d4_4_answer.s)), 4))

danish_medicine_adherence_scale(dmas_answers) ==
    dmas_frequency(dmas_binary_loop(dmas_answers, 1, 0), Get(dmas_answers, "D4-4"))

\* The loop of simple_response_to_score_map from the i-th question on.
RECURSIVE simple_response_loop(_, _, _, _, _, _)
simple_response_loop(answers, questions, low_val, high_val, i, total_score) ==
    IF i > Len(questions) THEN Return(total_score)
    ELSE LET question_id == questions[i]
             val == valid_and_digit(Get(answers, question_id), low_val, high_val,
                                    question_id)
         IN  IF ~val.ok THEN val
             ELSE simple_response_loop(answers, questions, low_val, high_val, i + 1,
                                       total_score + val.val)

simple_response_to_score_map(answers, questions, answer_range) ==
    simple_response_loop(answers, questions, answer_range[1], answer_range[2], 1, 0)

(***************************************************************************)
(* process.py: the other instrument processors.                            *)
(***************************************************************************)
who5_question_ids == <<"Q1", "Q2", "Q3", "Q4", "Q5">>

emotional_distress_question_ids == <<"B2-1", "B2-2", "B2-3", "B2-4", "B2-5", "B2-6">>

food_behavior_question_ids == <<"C1-1", "C1-2", "C1-3", "C1-4", "C1-5", "C1-6">>

\* process_who5_response from the summed score on (lines 111-118).
process_who5_result(overall_score) ==
    IF ~overall_score.ok THEN overall_score
    ELSE Return([overall_score |-> overall_score.val,
                 percentage_score |-> overall_score.val * 4])

process_who5_response(response) ==
    process_who5_result(
        simple_response_to_score_map(response, who5_question_ids, <<1, 5>>))

\* Faulty variant: the overall score adds the anxiety score twice.
process_hads_result_anxiety_twice(anxiety_score, depression_score) ==
    IF ~anxiety_score.ok THEN anxiety_score
    ELSE IF ~depression_score.ok THEN depression_score
    ELSE Return([anxiety_score |-> anxiety_score.val,
                 depression_score |-> depression_score.val,
                 overall_score |-> anxiety_score.val + anxiety_score.val])

\* process_hads_response from the two subscale outcomes on (lines 133-141).
process_hads_result(anxiety_score, depression_score) ==
    IF ~anxiety_score.ok THEN anxiety_score
    ELSE IF ~depression_score.ok THEN depression_score
    ELSE Return([anxiety_score |-> anxiety_score.val,
                 depression_score |-> depression_score.val,
                 overall_score |-> anxiety_score.val + depression_score.val])

process_hads_response(response) ==
    process_hads_result(hads_anxiety(response), hads_depression(response))

\* The score mapping of the emotional-distress and food-behaviour processors.
overall_score_only(overall_score) ==
    IF ~overall_score.ok THEN overall_score
    ELSE Return([overall_score |-> overall_score.val])

process_emotional_distress_response(response) ==
    overall_score_only(
        simple_response_to_score_map(response, emotional_distress_question_ids, <<0, 4>>))

process_food_behavior_response(response) ==
    overall_score_only(
        simple_response_to_score_map(response, food_behavior_question_ids, <<0, 4>>))

(***************************************************************************)
(* processors.py: the earlier versions of the processors.  The WHO-5 and   *)
(* emotional-distress versions add the raw answers with Python's "+",      *)
(* reading an absent key as 0.                                             *)
(***************************************************************************)
\* a + b of Python on JSON-decoded values.
PyAdd(a, b) ==
    IF IsInstanceNumber(a) /\ IsInstanceNumber(b)
    THEN IF a.t = "float" \/ b.t = "float"
         THEN Return(PyFloat(a.n * b.d + b.n * a.d, a.d * b.d))
         ELSE Return(PyInt(a.n + b.n))
    ELSE IF IsInstanceStr(a) /\ IsInstanceStr(b) THEN Return(PyStr(a.s \o b.s))
    ELSE IF a.t = "list" /\ b.t = "list" THEN Return(PyList)
    ELSE Raise("TypeError", "unsupported operand type(s) for +", "")

\* a * 4 of Python on a JSON-decoded value.
PyTimes4(a) ==
    IF IsInstanceNumber(a)
    THEN IF a.t = "float" THEN Return(PyFloat(a.n * 4, a.d)) ELSE Return(PyInt(a.n * 4))
    ELSE IF IsInstanceStr(a) THEN Return(PyStr(a.s \o a.s \o a.s \o a.s))
    ELSE IF a.t = "list" THEN Return(PyList)
    ELSE Raise("TypeError", "unsupported operand type(s) for *", "")

\* values[1] + values[2] + ... + values[i], evaluated from the left.
RECURSIVE PySum(_, _)
PySum(values, i) ==
    IF i = 1 THEN Return(values[1])
    ELSE LET rest == PySum(values, i - 1)
         IN  IF ~rest.ok THEN rest ELSE PyAdd(rest.val, values[i])

\* processors.process_psqi_response from the seven component outcomes on
\* (lines 33-46).
processors_process_psqi_result(c1, c2, c3, c4, c5, c6, c7) ==
    IF ~c1.ok THEN c1
    ELSE IF ~c2.ok THEN c2
    ELSE IF ~c3.ok THEN c3
    ELSE IF ~c4.ok THEN c4
    ELSE IF ~c5.ok THEN c5
    ELSE IF ~c6.ok THEN c6
    ELSE IF ~c7.ok THEN c7
    ELSE Return([C1_duration |-> c1.val,
                 C2_disturbance |-> c2.val,
                 C3_latency |-> c3.val,
                 C4_day_dysfunction |-> c4.val,
                 C5_sleep_efficiency |-> c5.val,
                 C6_overall_sleep_quality |-> c6.val,
                 C7_medication |-> c7.val,
                 global_score |->
                     c1.val + c2.val + c3.val + c4.val + c5.val + c6.val + c7.val])

processors_process_psqi_response(response) ==
    processors_process_psqi_result(
        psqi_c1_duration(response), psqi_c2_disturbance(response),
        psqi_c3_latency(response), psqi_c4_day_dysfunction(response),
        psqi_c5_sleep_efficiency(response), psqi_c6_overall_sleep_quality(response),
        psqi_c7_medication(response))

\* processors.process_who5_response from the five answers read on (lines 64-77).
processors_process_who5_result(q, total_score) ==
    IF ~total_score.ok THEN total_score
    ELSE IF ~PyTimes4(total_score.val).ok THEN PyTimes4(total_score.val)
    ELSE Return([Q1 |-> q[1], Q2 |-> q[2], Q3 |-> q[3], Q4 |-> q[4], Q5 |-> q[5],
                 total_score |-> total_score.val,
                 percentage_score |-> PyTimes4(total_score.val).val])

\* The answers of the question-ids read with response.get(id, 0).
GetAllDefault0(response, question_ids) ==
    [i \in 1..Len(question_ids) |-> GetDefault(response, question_ids[i], PyInt(0))]

processors_process_who5_response(response) ==
    processors_process_who5_result(
        GetAllDefault0(response, who5_question_ids),
        PySum(GetAllDefault0(response, who5_question_ids), 5))

\* processors.process_hads_response from the two subscale outcomes on
\* (lines 92-100).
processors_process_hads_result(anxiety_score, depression_score) ==
    IF ~anxiety_score.ok THEN anxiety_score
    ELSE IF ~depression_score.ok THEN depression_score
    ELSE Return([anxiety_score |-> anxiety_score.val,
                 depression_score |-> depression_score.val,
                 total_score |-> anxiety_score.val + depression_score.val])

processors_process_hads_response(response) ==
    processors_process_hads_result(hads_anxiety(response), hads_depression(response))

\* processors.process_emotional_distress_response from the six answers read
\* on (lines 120-132).
processors_process_emotional_distress_result(response, total_score) ==
    IF ~total_score.ok THEN total_score
    ELSE Return([k \in Range(emotional_distress_question_ids) \cup {"total_score"} |->
                    IF k = "total_score" THEN total_score.val
                    ELSE GetDefault(response, k, PyInt(0))])

processors_process_emotional_distress_response(response) ==
    processors_process_emotional_distress_result(
        response, PySum(GetAllDefault0(response, emotional_distress_question_ids), 6))

(***************************************************************************)
(* visualisation/helpers.py: the standardised overall score of a record.   *)
(* A record is a mapping that may hold a score mapping under "scores"; the *)
(* values of the score mapping are JSON-like values.                       *)
(***************************************************************************)
\* a / b of Python on two values (true division).
PyTrueDiv(a, b) ==
    IF ~(IsInstanceNumber(a) /\ IsInstanceNumber(b))
    THEN Raise("TypeError", "unsupported operand type(s) for /", "")
    ELSE IF b.n = 0 THEN Raise("ZeroDivisionError", "division by zero", "")
    ELSE IF b.n < 0 THEN Return(Rat(-(a.n * b.d), -(a.d * b.n)))
    ELSE Return(Rat(a.n * b.d, a.d * b.n))

\* Faulty variant: an overall score of 0 is taken for a missing one.
standardised_from_scores_falsy(instrument_id, overall_score, max_score) ==
    IF overall_score = PyNone \/ overall_score = PyInt(0)
    THEN Raise("AssertionError", "no overall score found", instrument_id)
    ELSE IF max_score = PyNone
    THEN Raise("AssertionError", "no max score found", instrument_id)
    ELSE IF ~PyTrueDiv(overall_score, max_score).ok
    THEN PyTrueDiv(overall_score, max_score)
    ELSE Return(Rat(PyTrueDiv(overall_score, max_score).val.n * 100,
                    PyTrueDiv(overall_score, max_score).val.d))

\* get_standardised_overall_score from the two values read from the score
\* mapping on (lines 151-162).
standardised_from_scores(instrument_id, overall_score, max_score) ==
    IF overall_score = PyNone
    THEN Raise("AssertionError", "no overall score found", instrument_id)
    ELSE IF max_score = PyNone
    THEN Raise("AssertionError", "no max score found", instrument_id)
    ELSE IF ~PyTrueDiv(overall_score, max_score).ok
    THEN PyTrueDiv(overall_score, max_score)
    ELSE Return(Rat(PyTrueDiv(overall_score, max_score).val.n * 100,
                    PyTrueDiv(overall_score, max_score).val.d))

get_standardised_overall_score(instrument_id, response) ==
    IF Get(response, "scores") = PyNone
    THEN Raise("AssertionError", "no scores found", instrument_id)
    ELSE standardised_from_scores(instrument_id,
                                  Get(response["scores"], "overall_score"),
                                  Get(response["scores"], "max_score"))

(***************************************************************************)
(* visualisation/helpers.py: the scales of an instrument definition.  The  *)
(* dictionary scales is the sequence of its values in insertion order; a   *)
(* range is the sequence of its two values.                                *)
(***************************************************************************)
\* a == b of Python on two values.
PyEq(a, b) ==
    IF IsInstanceNumber(a) /\ IsInstanceNumber(b) THEN RatEq(a, b)
    ELSE a.t = b.t /\ a.s = b.s

\* a == b of Python on two lists.
PyListEq(a, b) == Len(a) = Len(b) /\ \A i \in 1..Len(a) : PyEq(a[i], b[i])

\* int(v) of the Python built-in: a float is truncated towards zero.
builtin_int(v) ==
    IF IsInstanceInt(v) THEN Return(v.n)
    ELSE IF v.t = "float"
    THEN Return(IF v.n >= 0 THEN v.n \div v.d ELSE -((-v.n) \div v.d))
    ELSE IF v.t = "str"
    THEN IF IsDigit(v.s) THEN Return(DigitsToInt(v.s))
         ELSE Raise("ValueError", "invalid literal for int()", "")
    ELSE Raise("TypeError", "int() argument must be a string or a real number", "")

\* Faulty variant: the range of the second scale is not compared.
RECURSIVE scales_loop_second_unchecked(_, _, _, _)
scales_loop_second_unchecked(instrument_id, scales, indx, answer_range) ==
    IF indx > Len(scales) THEN Return(answer_range)
    ELSE IF Get(scales[indx], "range") = PyNone
    THEN Raise("AssertionError", "No range found", instrument_id)
    ELSE IF indx = 1
    THEN scales_loop_second_unchecked(instrument_id, scales, 2, scales[1]["range"])
    ELSE IF indx > 2 /\ ~PyListEq(scales[indx]["range"], answer_range)
    THEN Raise("ValueError", "Different answer ranges found", instrument_id)
    ELSE scales_loop_second_unchecked(instrument_id, scales, indx + 1, answer_range)

\* The loop of get_instrument_scales (lines 217-230) from the scale at
\* position indx on, positions counted from 1.
RECURSIVE scales_loop(_, _, _, _)
scales_loop(instrument_id, scales, indx, answer_range) ==
    IF indx > Len(scales) THEN Return(answer_range)
    ELSE IF Get(scales[indx], "range") = PyNone
    THEN Raise("AssertionError", "No range found", instrument_id)
    ELSE IF indx = 1 THEN scales_loop(instrument_id, scales, 2, scales[1]["range"])
    ELSE IF ~PyListEq(scales[indx]["range"], answer_range)
    THEN Raise("ValueError", "Different answer ranges found", instrument_id)
    ELSE scales_loop(instrument_id, scales, indx + 1, answer_range)

\* The conversion of line 232 and the return.
integer_answer_range(scales, answer_range) ==
    IF ~answer_range.ok THEN answer_range
    ELSE IF ~builtin_int(answer_range.val[1]).ok THEN builtin_int(answer_range.val[1])
    ELSE IF ~builtin_int(answer_range.val[2]).ok THEN builtin_int(answer_range.val[2])
    ELSE Return(<<scales, <<builtin_int(answer_range.val[1]).val,
                            builtin_int(answer_range.val[2]).val>> >>)

get_instrument_scales(instrument) ==
    IF Get(instrument, "scales") = PyNone THEN Return(<<PyNone, PyNone>>)
    ELSE integer_answer_range(
             instrument["scales"],
             scales_loop(GetDefault(instrument, "instrument_id", PyStr(<<>>)),
                         instrument["scales"], 1, <<PyInt(0), PyInt(0)>>))

(***************************************************************************)
(* preprocess.py: the answers and the comments of a raw submission.  A raw *)
(* answer is a literal value or an object, a mapping that may hold the     *)
(* keys "answer" and "comment".                                            *)
(***************************************************************************)
\* isinstance(answer, dict): every literal value has the field t.
IsInstanceDict(answer) == "t" \notin DOMAIN answer

\* The answer stored for a raw answer (lines 36-44).
split_answer(answer) ==
    IF IsInstanceDict(answer) THEN Get(answer, "answer") ELSE answer

\* Faulty variant: the comment of a literal answer is the literal.
split_comment_literal(answer) ==
    IF IsInstanceDict(answer) THEN Get(answer, "comment") ELSE answer

\* The comment stored for a raw answer (lines 36-44).
split_comment(answer) ==
    IF IsInstanceDict(answer) THEN Get(answer, "comment") ELSE PyNone

\* The two mappings built from the questionnaires of a submission.
split_questionnaires(questionnaires) ==
    Return(<<[questionnaire_id \in DOMAIN questionnaires |->
                 [question \in DOMAIN questionnaires[questionnaire_id] |->
                     split_answer(questionnaires[questionnaire_id][question])]],
             [questionnaire_id \in DOMAIN questionnaires |->
                 [question \in DOMAIN questionnaires[questionnaire_id] |->
                     split_comment(questionnaires[questionnaire_id][question])]]>>)

split_answers_and_comments(responses) ==
    split_questionnaires(GetDefault(responses, "questionnaires", <<>>))

(***************************************************************************)
(* process.py and helpers.py: all questionnaires of one submission.        *)
(* answers and comments map a questionnaire id to the mapping of its       *)
(* question-ids; the result maps the id to its record.                     *)
(***************************************************************************)
QUESTTIONNAIRE_IDS ==
    <<"B1_Lifestyle", "B2_EmotionalDistress", "C_AreasOfConcern", "D1_FoodBehavior",
      "D4_DMAS", "WHO5", "PSQI", "HADS">>

get_specific_answers_and_comments(questionnaire_id, answers, comments) ==
    IF Get(answers, questionnaire_id) = PyNone
    THEN Raise("AssertionError", "No answers found", questionnaire_id)
    ELSE IF Get(comments, questionnaire_id) = PyNone
    THEN Raise("AssertionError", "No comments found", questionnaire_id)
    ELSE Return(<<answers[questionnaire_id], comments[questionnaire_id]>>)

\* The entry of the dictionary processors for the id, applied to x.
processors(questionnaire_id, x) ==
    CASE questionnaire_id = "B1_Lifestyle" -> Return(x)
      [] questionnaire_id = "B2_EmotionalDistress" -> process_emotional_distress_response(x)
      [] questionnaire_id = "C_AreasOfConcern" -> Return(x)
      [] questionnaire_id = "D1_FoodBehavior" -> process_food_behavior_response(x)
      [] questionnaire_id = "D4_DMAS" -> Return(x)
      [] questionnaire_id = "WHO5" -> process_who5_response(x)
      [] questionnaire_id = "PSQI" -> process_psqi_response(x)
      [] questionnaire_id = "HADS" -> process_hads_response(x)

\* The record stored for a questionnaire (lines 51-55).
processed_record(specific, response_score) ==
    [answers |-> specific[1], comments |-> specific[2], scores |-> response_score]

\* Faulty variant: a failure returns the records built so far.
RECURSIVE process_responses_loop_partial(_, _, _, _)
process_responses_loop_partial(answers, comments, i, processed_data) ==
    IF i > Len(QUESTTIONNAIRE_IDS) THEN Return(processed_data)
    ELSE IF ~get_specific_answers_and_comments(QUESTTIONNAIRE_IDS[i], answers, comments).ok
    THEN Return(processed_data)
    ELSE IF ~processors(QUESTTIONNAIRE_IDS[i], answers[QUESTTIONNAIRE_IDS[i]]).ok
    THEN Return(processed_data)
    ELSE process_responses_loop_partial(
             answers, comments, i + 1,
             [q \in DOMAIN processed_data \cup {QUESTTIONNAIRE_IDS[i]} |->
                 IF q = QUESTTIONNAIRE_IDS[i]
                 THEN processed_record(
                          <<answers[q], comments[q]>>, processors(q, answers[q]).val)
                 ELSE processed_data[q]])

\* The loop of process_responses from the i-th questionnaire id on.
RECURSIVE process_responses_loop(_, _, _, _)
process_responses_loop(answers, comments, i, processed_data) ==
    IF i > Len(QUESTTIONNAIRE_IDS) THEN Return(processed_data)
    ELSE IF ~get_specific_answers_and_comments(QUESTTIONNAIRE_IDS[i], answers, comments).ok
    THEN get_specific_answers_and_comments(QUESTTIONNAIRE_IDS[i], answers, comments)
    ELSE IF ~processors(QUESTTIONNAIRE_IDS[i], answers[QUESTTIONNAIRE_IDS[i]]).ok
    THEN processors(QUESTTIONNAIRE_IDS[i], answers[QUESTTIONNAIRE_IDS[i]])
    ELSE process_responses_loop(
             answers, comments, i + 1,
             [q \in DOMAIN processed_data \cup {QUESTTIONNAIRE_IDS[i]} |->
                 IF q = QUESTTIONNAIRE_IDS[i]
                 THEN processed_record(
                          get_specific_answers_and_comments(q, answers, comments).val,
                          processors(q, answers[q]).val)
                 ELSE processed_data[q]])

process_responses(answers, comments) == process_responses_loop(answers, comments, 1, <<>>)

(***************************************************************************)
(* Inputs of the model.                                                    *)
(***************************************************************************)
\* Characters the strings of the model are made of.
Alphabet == {"2", "6", "7", "-", ".", "a"}

\* Longest string handed to split_the_difference.
MaxStrLen == 5

\* Longest string handed to valid_and_digit and to the scorers.
MaxShortLen == 2

\* Integers of the model are -1..MaxInt.
MaxInt == 8

\* Floats of the model are the multiples of 1/FloatDen in -1..MaxInt.
FloatDen == 4

\* Upper scale bounds of the model are 0..MaxUpper.
MaxUpper == 5

StringsUpTo(len) == UNION {[1..k -> Alphabet] : k \in 0..len}

IntValues == {PyInt(i) : i \in -1..MaxInt}

FloatValues == {PyFloat(i, FloatDen) : i \in (-FloatDen)..(MaxInt * FloatDen)}

OtherValues == {PyNone, PyList, PyBool(TRUE), PyBool(FALSE)}

\* Raw answers handed to valid_and_digit.
ScalarValues ==
    IntValues \cup FloatValues \cup OtherValues
        \cup {PyStr(s) : s \in StringsUpTo(MaxShortLen)}

\* Raw answers handed to split_the_difference.
RangeValues ==
    IntValues \cup FloatValues \cup OtherValues
        \cup {PyStr(s) : s \in StringsUpTo(MaxStrLen)}

ScaleBounds == {<<lo, hi>> \in (0..1) \X (0..MaxUpper) : lo <= hi}

\* Longest string given as the sleep hours of a psqi_c1_duration call.
MaxHoursLen == 3

\* Marks a key that the answer mapping does not contain.
Absent == [t |-> "absent", n |-> 0, d |-> 1, s |-> <<>>]

\* The mapping with the keys of f that are not marked absent.
Present(f) == [k \in {x \in DOMAIN f : f[x] # Absent} |-> f[k]]

\* f with the answers of the keys k1 and k2 replaced.
Replace2(f, k1, v1, k2, v2) == Present([[f EXCEPT ![k1] = v1] EXCEPT ![k2] = v2])

\* Answers tried for one of the eight disturbance items of psqi_c2_disturbance.
DisturbanceSamples ==
    {Absent, PyNone, PyStr(<<"2">>), PyFloat(6, 4), PyInt(-1), PyInt(7)}

\* Answers tried for an item of a 0..3, 0..4 or 1..5 scale of a processor.
ItemSamples == {Absent, PyNone, PyStr(<<"2">>), PyInt(7)}

\* Answers tried for the sleep hours and the sleep latency of a processor.
HoursSamples == {Absent, PyInt(7), PyFloat(22, 4), PyStr(<<"7">>)}

\* Answers tried for the bedtime and the wake time of a processor.
TimeSamples ==
    {Absent, PyInt(7),
     PyStr(<<"2", "3", ":", "0", "0">>),
     PyStr(<<"0", "7", ":", "0", "0", "-", "0", "8", ":", "0", "0">>)}

\* Answers tried for the sleep latency of a psqi_c3_latency call.
LatencySamples ==
    {Absent, PyNone, PyInt(-1), PyInt(0), PyInt(15), PyInt(16), PyInt(30), PyInt(31),
     PyInt(60), PyInt(61), PyFloat(-1, 4), PyFloat(61, 4), PyStr(<<"7">>),
     PyStr(<<"1", "5", "-", "3", "0">>)}

\* Answers tried for a 0..3 item of psqi_c3_latency and psqi_c4_day_dysfunction.
ScaleItemSamples ==
    {Absent, PyInt(-1), PyInt(0), PyInt(1), PyInt(2), PyInt(3), PyInt(7),
     PyStr(<<"2">>), PyFloat(6, 4)}

\* Answers tried for the bedtime of a psqi_c5_sleep_efficiency call.
BedtimeSamples ==
    {Absent, PyInt(7),
     PyStr(<<"0", "0", ":", "0", "0">>),
     PyStr(<<"0", "7", ":", "0", "0">>),
     PyStr(<<"2", "3", ":", "0", "0">>),
     PyStr(<<"2", "2", ":", "3", "0", "-", "2", "3", ":", "0", "0">>)}

\* Answers tried for the wake time of a psqi_c5_sleep_efficiency call.
WakeTimeSamples ==
    {Absent, PyStr(<<"7", ":", "0", "0">>),
     PyStr(<<"0", "0", ":", "0", "0">>),
     PyStr(<<"0", "7", ":", "0", "0">>),
     PyStr(<<"0", "8", ":", "0", "0">>),
     PyStr(<<"1", "0", ":", "0", "0">>),
     PyStr(<<"0", "7", ":", "0", "0", "-", "0", "8", ":", "0", "0">>),
     PyStr(<<"2", "3", ":", "0", "0", "-", "2", "2", ":", "0", "0">>)}

\* Answers tried for the sleep hours of a psqi_c5_sleep_efficiency call.
SleptSamples ==
    {Absent, PyInt(-1), PyInt(0), PyInt(6), PyInt(7), PyFloat(-1, 4), PyFloat(26, 4),
     PyFloat(30, 4), PyFloat(34, 4), PyStr(<<"7">>), PyStr(<<"6", "-", "7">>)}

psqi_keys ==
    <<"q1_bedtime", "q2_sleep_latency_min", "q3_wake_time", "q4_sleep_hours",
      "q5a_cant_sleep_30min">> \o disturbance_questions \o
    <<"q6_overall_quality", "q7_sleep_medication", "q8_trouble_staying_awake",
      "q9_low_enthusiasm">>

hads_keys == anxiety_questions \o depression_questions

\* A complete, valid PSQI response whose 0..3 items are all answered b.
PsqiFilled(b) ==
    [k \in Range(psqi_keys) |->
        IF k = "q1_bedtime" THEN PyStr(<<"0", "0", ":", "3", "0">>)
        ELSE IF k = "q3_wake_time" THEN PyStr(<<"0", "7", ":", "0", "0">>)
        ELSE IF k = "q4_sleep_hours" THEN PyStr(<<"6", "-", "7">>)
        ELSE IF k = "q2_sleep_latency_min" THEN PyInt(10)
        ELSE PyInt(b)]

\* Answers tried for a listed item of a simple_response_to_score_map call.
SumSamples ==
    {Absent, PyNone, PyInt(0), PyInt(2), PyInt(5), PyInt(7), PyStr(<<"2">>),
     PyStr(<<"a">>), PyFloat(6, 4)}

\* Answers tried for a key that the question list does not name.
OtherKeySamples == {Absent, PyInt(7), PyStr(<<"a">>)}

\* Question lists and answer ranges of the simple_response_to_score_map calls.
QuestionLists == {<<>>, <<"Q1">>, <<"Q1", "Q2">>, <<"Q2", "Q1">>}

AnswerRanges == {<<0, 4>>, <<1, 5>>}

\* Answers tried for a yes/no item of the adherence scale.
BinarySamples ==
    {PyStr(<<"y", "e", "s">>), PyStr(<<"n", "o">>), PyStr(<<"Y", "e", "s">>), PyInt(1)}

\* Further answers tried for one yes/no item at a time.
OddBinarySamples == {Absent, PyNone, PyStr(<<"Y", "E", "S">>), PyStr(<<"o", "f", "t", "e", "n">>)}

\* Answers tried for the frequency item D4-4.
FrequencySamples ==
    {Absent, PyInt(2), PyStr(<<"n", "e", "v", "e", "r">>), PyStr(<<"r", "a", "r", "e", "l", "y">>),
     PyStr(<<"s", "o", "m", "e", "t", "i", "m", "e", "s">>), PyStr(<<"u", "s", "u", "a", "l", "l", "y">>),
     PyStr(<<"a", "l", "w", "a", "y", "s">>), PyStr(<<"A", "l", "w", "a", "y", "s">>),
     PyStr(<<"o", "f", "t", "e", "n">>)}

\* Answers tried for the free-text items D4-5 and D4-7.
TextSamples == {Absent, PyInt(7), PyStr(<<"a">>)}

\* Overall and maximal scores tried in the score mapping of a record.
OverallSamples ==
    {Absent, PyNone, PyInt(-2), PyInt(0), PyInt(15), PyInt(25), PyInt(27),
     PyFloat(13, 4), PyStr(<<"2">>)}

MaxScoreSamples == {Absent, PyNone, PyInt(-5), PyInt(0), PyInt(21), PyInt(25), PyFloat(5, 1)}

\* Records tried for get_standardised_overall_score: without scores, with
\* null scores, and with the score mappings of the samples.
RecordSamples ==
    {[answers |-> <<>>], [answers |-> <<>>, scores |-> PyNone]}
        \cup {[answers |-> <<>>,
               scores |-> Present([overall_score |-> o, max_score |-> m,
                                   percentage_score |-> p])] :
                 o \in OverallSamples, m \in MaxScoreSamples, p \in {Absent, PyInt(60)}}

\* The question-ids of a questionnaire of a submission.
QuestionsOf(q) ==
    CASE q = "B1_Lifestyle" -> {"B1-1", "B1-2"}
      [] q = "B2_EmotionalDistress" -> Range(emotional_distress_question_ids)
      [] q = "C_AreasOfConcern" -> {"C-1"}
      [] q = "D1_FoodBehavior" -> Range(food_behavior_question_ids)
      [] q = "D4_DMAS" -> {"D4-1", "D4-2", "D4-3", "D4-4", "D4-6"}
      [] q = "WHO5" -> Range(who5_question_ids)
      [] q = "PSQI" -> Range(psqi_keys)
      [] q = "HADS" -> Range(hads_keys)

\* A complete, valid answer mapping of the questionnaire q, its scale items
\* answered b.
AnswersOf(q, b) ==
    IF q = "PSQI" THEN PsqiFilled(b)
    ELSE IF q = "D4_DMAS"
    THEN [k \in QuestionsOf(q) |->
             IF k = "D4-4" THEN PyStr(<<"r", "a", "r", "e", "l", "y">>)
             ELSE IF k = "D4-1" THEN PyStr(<<"n", "o">>)
             ELSE PyStr(<<"y", "e", "s">>)]
    ELSE [k \in QuestionsOf(q) |-> PyInt(b)]

\* The question of q whose answer or comment the submissions vary.
MarkedQuestion(q) ==
    CASE q = "B1_Lifestyle" -> "B1-1"
      [] q = "B2_EmotionalDistress" -> "B2-1"
      [] q = "C_AreasOfConcern" -> "C-1"
      [] q = "D1_FoodBehavior" -> "C1-1"
      [] q = "D4_DMAS" -> "D4-2"
      [] q = "WHO5" -> "Q3"
      [] q = "PSQI" -> "q6_overall_quality"
      [] q = "HADS" -> "A1"

\* The ways the part of one questionnaire deviates in a submission: its
\* answers or its comments are missing or null, one of its answers is a
\* word, or its questions are named like the fields of a score mapping.
Deviations == {"none", "no answers", "null answers", "no comments", "word", "score names"}

\* The answers of questionnaire q under the deviation v.
DeviatingAnswers(q, b, v) ==
    CASE v = "no answers" -> Absent
      [] v = "null answers" -> PyNone
      [] v = "word" ->
             [AnswersOf(q, b) EXCEPT ![MarkedQuestion(q)] = PyStr(<<"a">>)]
      [] v = "score names" -> [overall_score |-> PyInt(b), max_score |-> PyInt(4)]
      [] OTHER -> AnswersOf(q, b)

\* The comments of questionnaire q under the deviation v: no comment at all,
\* or one comment on the marked question when c holds.
DeviatingComments(q, c, v) ==
    IF v = "no comments" THEN Absent
    ELSE [k \in QuestionsOf(q) |->
             IF c /\ k = MarkedQuestion(q) THEN PyStr(<<"a">>) ELSE PyNone]

\* The levels the scale items of a submission are answered with.
SubmissionLevels == {1, 3}

\* The most scales an instrument definition of the model has.
MaxScales == 3

\* The ranges tried for a scale: none, null, and five pairs of numbers, of
\* which the third equals the fifth as numbers.
ScaleRangeSamples ==
    <<Absent, PyNone, <<PyInt(0), PyInt(4)>>, <<PyInt(1), PyInt(5)>>,
      <<PyFloat(0, 1), PyFloat(4, 1)>>, <<PyInt(0), PyFloat(9, 2)>>,
      <<PyFloat(-3, 2), PyInt(4)>> >>

\* The raw answers tried for a question: no answer, three literals, and
\* objects with and without an answer and a comment.
RawAnswerSamples ==
    <<Absent, PyInt(3), PyStr(<<"a">>), PyNone,
      [answer |-> PyInt(3), comment |-> PyStr(<<"b">>)],
      [answer |-> PyStr(<<"a">>), comment |-> PyNone],
      [answer |-> PyInt(3)], [comment |-> PyStr(<<"b">>)], <<>> >>

\* The PSQI response of the specification's end-to-end example.
PsqiExample ==
    [k \in Range(psqi_keys) |->
        IF k = "q1_bedtime" THEN PyStr(<<"2", "3", ":", "0", "0">>)
        ELSE IF k = "q3_wake_time" THEN PyStr(<<"0", "7", ":", "0", "0">>)
        ELSE IF k = "q4_sleep_hours" THEN PyStr(<<"6", "-", "7">>)
        ELSE IF k = "q2_sleep_latency_min" THEN PyInt(10)
        ELSE IF k = "q6_overall_quality" THEN PyInt(1)
        ELSE PyInt(0)]

(***************************************************************************)
(* The calls of the model, by the name a client calls the function.  A     *)
(* scorer is called with a complete response whose items are all answered  *)
(* with one level and in which the answers of up to two keys are replaced. *)
(***************************************************************************)
ComponentNames ==
    {"psqi_c1_duration", "psqi_c2_disturbance", "psqi_c3_latency",
     "psqi_c4_day_dysfunction"}

ProcessNames ==
    {"process.process_psqi_response", "process.process_hads_response",
     "process.process_who5_response", "process.process_emotional_distress_response",
     "process.process_food_behavior_response"}

ProcessorsNames ==
    {"processors.process_psqi_response", "processors.process_hads_response",
     "processors.process_who5_response",
     "processors.process_emotional_distress_response"}

\* The question-ids of the responses handed to fn.
KeysOf(fn) ==
    IF fn = "psqi_c1_duration" THEN <<"q4_sleep_hours">>
    ELSE IF fn = "psqi_c2_disturbance" THEN disturbance_questions
    ELSE IF fn = "psqi_c3_latency" THEN <<"q2_sleep_latency_min", "q5a_cant_sleep_30min">>
    ELSE IF fn = "psqi_c4_day_dysfunction"
    THEN <<"q8_trouble_staying_awake", "q9_low_enthusiasm">>
    ELSE IF fn \in {"process.process_psqi_response", "processors.process_psqi_response"}
    THEN psqi_keys
    ELSE IF fn \in {"process.process_hads_response", "processors.process_hads_response"}
    THEN hads_keys
    ELSE IF fn \in {"process.process_who5_response", "processors.process_who5_response"}
    THEN who5_question_ids
    ELSE IF fn = "process.process_food_behavior_response" THEN food_behavior_question_ids
    ELSE emotional_distress_question_ids

\* The levels the unreplaced items of a response handed to fn are answered with.
LevelsOf(fn) ==
    IF fn \in {"psqi_c1_duration", "psqi_c3_latency", "psqi_c4_day_dysfunction"} THEN {0}
    ELSE IF fn = "psqi_c2_disturbance" THEN 0..3
    ELSE IF fn \in {"process.process_who5_response", "processors.process_who5_response"}
    THEN {0, 3, 5}
    ELSE {0, 3}

\* The complete response handed to fn, its items answered b.
FilledOf(fn, b) ==
    IF fn \in ComponentNames
           \cup {"process.process_psqi_response", "processors.process_psqi_response"}
    THEN PsqiFilled(b)
    ELSE [k \in Range(KeysOf(fn)) |-> PyInt(b)]

\* The answers that replace the answer of key k in a response handed to fn.
SamplesOf(fn, k) ==
    IF fn = "psqi_c1_duration"
    THEN IntValues \cup FloatValues \cup OtherValues \cup {Absent}
             \cup {PyStr(s) : s \in StringsUpTo(MaxHoursLen)}
    ELSE IF fn = "psqi_c2_disturbance" THEN DisturbanceSamples
    ELSE IF fn = "psqi_c3_latency" /\ k = "q2_sleep_latency_min" THEN LatencySamples
    ELSE IF fn \in {"psqi_c3_latency", "psqi_c4_day_dysfunction"} THEN ScaleItemSamples
    ELSE IF k \in {"q1_bedtime", "q3_wake_time"} THEN TimeSamples
    ELSE IF k \in {"q2_sleep_latency_min", "q4_sleep_hours"} THEN HoursSamples
    ELSE ItemSamples

\* What the scorer named fn does with the answer mapping a.
RunScorer(fn, a) ==
    CASE fn = "psqi_c1_duration" -> psqi_c1_duration(a)
      [] fn = "psqi_c2_disturbance" -> psqi_c2_disturbance(a)
      [] fn = "psqi_c3_latency" -> psqi_c3_latency(a)
      [] fn = "psqi_c4_day_dysfunction" -> psqi_c4_day_dysfunction(a)
      [] fn = "process.process_psqi_response" -> process_psqi_response(a)
      [] fn = "process.process_hads_response" -> process_hads_response(a)
      [] fn = "process.process_who5_response" -> process_who5_response(a)
      [] fn = "process.process_emotional_distress_response" ->
             process_emotional_distress_response(a)
      [] fn = "process.process_food_behavior_response" ->
             process_food_behavior_response(a)
      [] fn = "processors.process_psqi_response" -> processors_process_psqi_response(a)
      [] fn = "processors.process_hads_response" -> processors_process_hads_response(a)
      [] fn = "processors.process_who5_response" -> processors_process_who5_response(a)
      [] fn = "processors.process_emotional_distress_response" ->
             processors_process_emotional_distress_response(a)

InitValidAndDigit ==
    \E v \in ScalarValues, b \in ScaleBounds :
        call = [fn |-> "valid_and_digit", args |-> <<v, b[1], b[2]>>]

InitSplitTheDifference ==
    \E v \in RangeValues : call = [fn |-> "split_the_difference", args |-> <<v>>]

InitScorer ==
    \E fn \in ComponentNames \cup ProcessNames \cup ProcessorsNames :
        \E b \in LevelsOf(fn) :
            \E i1 \in 1..Len(KeysOf(fn)) :
                \E i2 \in i1..Len(KeysOf(fn)) :
                    \E v1 \in SamplesOf(fn, KeysOf(fn)[i1]),
                       v2 \in SamplesOf(fn, KeysOf(fn)[i2]) :
                        /\ i1 = i2 => v1 = v2
                        /\ call = [fn |-> fn,
                                   args |-> <<Replace2(FilledOf(fn, b), KeysOf(fn)[i1], v1,
                                                       KeysOf(fn)[i2], v2)>>]

InitSleepEfficiency ==
    \E q1 \in BedtimeSamples, q3 \in WakeTimeSamples, q4 \in SleptSamples :
        call = [fn |-> "psqi_c5_sleep_efficiency",
                args |-> <<Present([q1_bedtime |-> q1, q3_wake_time |-> q3,
                                    q4_sleep_hours |-> q4])>>]

InitSimpleResponse ==
    \E q1 \in SumSamples, q2 \in SumSamples, x \in OtherKeySamples :
        \E qs \in QuestionLists, r \in AnswerRanges :
            call = [fn |-> "simple_response_to_score_map",
                    args |-> <<Present([Q1 |-> q1, Q2 |-> q2, X9 |-> x]), qs, r>>]

InitDmas ==
    \E b \in [1..4 -> BinarySamples], f \in FrequencySamples :
        \E t5 \in TextSamples, t7 \in TextSamples :
            call = [fn |-> "danish_medicine_adherence_scale",
                    args |-> <<Present([k \in {"D4-1", "D4-2", "D4-3", "D4-4", "D4-5",
                                               "D4-6", "D4-7"} |->
                                           IF k = "D4-4" THEN f
                                           ELSE IF k = "D4-5" THEN t5
                                           ELSE IF k = "D4-7" THEN t7
                                           ELSE IF k = "D4-6" THEN b[4]
                                           ELSE IF k = "D4-3" THEN b[3]
                                           ELSE IF k = "D4-2" THEN b[2]
                                           ELSE b[1]])>>]

InitDmasOdd ==
    \E i \in 1..4, v \in OddBinarySamples, f \in FrequencySamples :
        \E b \in [1..4 -> {PyStr(<<"y", "e", "s">>), PyStr(<<"n", "o">>)}] :
            call = [fn |-> "danish_medicine_adherence_scale",
                    args |-> <<Present([k \in {"D4-1", "D4-2", "D4-3", "D4-4", "D4-6"} |->
                                           IF k = "D4-4" THEN f
                                           ELSE IF k = binary_questions[i] THEN v
                                           ELSE IF k = "D4-6" THEN b[4]
                                           ELSE IF k = "D4-3" THEN b[3]
                                           ELSE IF k = "D4-2" THEN b[2]
                                           ELSE b[1]])>>]

InitStandardised ==
    \E id \in {"WHO5", "PSQI"}, r \in RecordSamples :
        call = [fn |-> "get_standardised_overall_score", args |-> <<id, r>>]

\* An instrument definition without scales, with null scales, or with up to
\* MaxScales scales whose ranges are among the samples.
InitInstrumentScales ==
    \/ \E s \in {Absent, PyNone} :
           call = [fn |-> "get_instrument_scales",
                   args |-> <<Present([instrument_id |-> PyStr(<<"a">>), scales |-> s])>>]
    \/ \E k \in 0..MaxScales : \E r \in [1..k -> 1..Len(ScaleRangeSamples)] :
           call = [fn |-> "get_instrument_scales",
                   args |-> <<[instrument_id |-> PyStr(<<"a">>),
                               scales |-> [i \in 1..k |->
                                   Present([name |-> PyStr(<<"b">>),
                                            range |-> ScaleRangeSamples[r[i]]])]]>>]

\* A raw submission without questionnaires, or with the WHO5 part, the PSQI
\* part or both, of up to two questions and one question.
InitSplit ==
    \/ call = [fn |-> "split_answers_and_comments",
               args |-> <<[patient |-> PyStr(<<"a">>)]>>]
    \/ \E w \in BOOLEAN, p \in BOOLEAN :
       \E r \in [1..3 -> 1..Len(RawAnswerSamples)] :
           call = [fn |-> "split_answers_and_comments",
                   args |-> <<[questionnaires |->
                       [q \in {x \in {"WHO5", "PSQI"} :
                                  (x = "WHO5" /\ w) \/ (x = "PSQI" /\ p)} |->
                           IF q = "WHO5"
                           THEN Present([Q1 |-> RawAnswerSamples[r[1]],
                                         Q2 |-> RawAnswerSamples[r[2]]])
                           ELSE Present([q1_bedtime |-> RawAnswerSamples[r[3]]])]]>>]

\* A submission in which the questionnaire q1 deviates in any way and the
\* questionnaire q2 may hold a word.
InitProcessResponses ==
    \E b \in SubmissionLevels, c \in BOOLEAN, q1 \in Range(QUESTTIONNAIRE_IDS),
       v1 \in Deviations, q2 \in Range(QUESTTIONNAIRE_IDS), v2 \in {"none", "word"} :
        call = [fn |-> "process_responses",
                args |-> <<Present([q \in Range(QUESTTIONNAIRE_IDS) |->
                                       IF q = q1 THEN DeviatingAnswers(q, b, v1)
                                       ELSE IF q = q2 THEN DeviatingAnswers(q, b, v2)
                                       ELSE AnswersOf(q, b)]),
                           Present([q \in Range(QUESTTIONNAIRE_IDS) |->
                                       IF q = q1 THEN DeviatingComments(q, c, v1)
                                       ELSE DeviatingComments(q, c, "none")])>>]

\* The calls of the specification's worked examples: the PSQI end-to-end
\* example, a HADS response answered 0 throughout and a WHO-5 response
\* answered 3 throughout.
ExampleCalls ==
    {<<"process.process_psqi_response", PsqiExample>>,
     <<"processors.process_psqi_response", PsqiExample>>,
     <<"process.process_hads_response", [k \in Range(hads_keys) |-> PyInt(0)]>>,
     <<"process.process_who5_response", [k \in Range(who5_question_ids) |-> PyInt(3)]>>}

InitExample == \E e \in ExampleCalls : call = [fn |-> e[1], args |-> <<e[2]>>]

Init ==
    /\ pc = "ready"
    /\ ret = Return(NoVal)
    /\ \/ InitValidAndDigit
       \/ InitSplitTheDifference
       \/ InitScorer
       \/ InitSleepEfficiency
       \/ InitSimpleResponse
       \/ InitDmas
       \/ InitDmasOdd
       \/ InitStandardised
       \/ InitSplit
       \/ InitInstrumentScales
       \/ InitProcessResponses
       \/ InitExample

CallValidAndDigit ==
    /\ pc = "ready"
    /\ call.fn = "valid_and_digit"
    /\ ret' = valid_and_digit(call.args[1], call.args[2], call.args[3], "item")
    /\ pc' = "done"
    /\ UNCHANGED call

CallSplitTheDifference ==
    /\ pc = "ready"
    /\ call.fn = "split_the_difference"
    /\ ret' = split_the_difference(call.args[1], "item")
    /\ pc' = "done"
    /\ UNCHANGED call

CallPsqiComponent ==
    /\ pc = "ready"
    /\ call.fn \in ComponentNames
    /\ ret' = RunScorer(call.fn, call.args[1])
    /\ pc' = "done"
    /\ UNCHANGED call

CallSleepEfficiency ==
    /\ pc = "ready"
    /\ call.fn = "psqi_c5_sleep_efficiency"
    /\ ret' = psqi_c5_sleep_efficiency(call.args[1])
    /\ pc' = "done"
    /\ UNCHANGED call

CallSimpleResponse ==
    /\ pc = "ready"
    /\ call.fn = "simple_response_to_score_map"
    /\ ret' = simple_response_to_score_map(call.args[1], call.args[2], call.args[3])
    /\ pc' = "done"
    /\ UNCHANGED call

CallDmas ==
    /\ pc = "ready"
    /\ call.fn = "danish_medicine_adherence_scale"
    /\ ret' = danish_medicine_adherence_scale(call.args[1])
    /\ pc' = "done"
    /\ UNCHANGED call

CallStandardised ==
    /\ pc = "ready"
    /\ call.fn = "get_standardised_overall_score"
    /\ ret' = get_standardised_overall_score(call.args[1], call.args[2])
    /\ pc' = "done"
    /\ UNCHANGED call

CallInstrumentScales ==
    /\ pc = "ready"
    /\ call.fn = "get_instrument_scales"
    /\ ret' = get_instrument_scales(call.args[1])
    /\ pc' = "done"
    /\ UNCHANGED call

CallSplit ==
    /\ pc = "ready"
    /\ call.fn = "split_answers_and_comments"
    /\ ret' = split_answers_and_comments(call.args[1])
    /\ pc' = "done"
    /\ UNCHANGED call

CallProcessResponses ==
    /\ pc = "ready"
    /\ call.fn = "process_responses"
    /\ ret' = process_responses(call.args[1], call.args[2])
    /\ pc' = "done"
    /\ UNCHANGED call

CallProcess ==
    /\ pc = "ready"
    /\ call.fn \in ProcessNames
    /\ ret' = RunScorer(call.fn, call.args[1])
    /\ pc' = "done"
    /\ UNCHANGED call

CallProcessors ==
    /\ pc = "ready"
    /\ call.fn \in ProcessorsNames
    /\ ret' = RunScorer(call.fn, call.args[1])
    /\ pc' = "done"
    /\ UNCHANGED call

Next ==
    \/ CallValidAndDigit
    \/ CallSplitTheDifference
    \/ CallPsqiComponent
    \/ CallSleepEfficiency
    \/ CallSimpleResponse
    \/ CallDmas
    \/ CallStandardised
    \/ CallInstrumentScales
    \/ CallSplit
    \/ CallProcessResponses
    \/ CallProcess
    \/ CallProcessors

Spec == Init /\ [][Next]_vars

(***************************************************************************)
(* Properties of the scoring engine.                                       *)
(***************************************************************************)
\* The call of fn has run.
Done(fn) == pc = "done" /\ call.fn = fn

\* The raw value v is an integer or a string of digits.
IsIntegerAnswer(v) == v.t = "int" \/ (v.t = "str" /\ IsDigit(v.s))

\* The integer an integer answer denotes.
IntegerOf(v) == IF v.t = "int" THEN v.n ELSE DigitsToInt(v.s)

\* The string chars is two decimal literals separated by its only hyphen.
IsTwoTokenRange(chars) ==
    /\ Len(chars) - Len(Without(chars, "-")) = 1
    /\ IsFloatLiteral(SubSeq(chars, 1, IndexOf(chars, "-") - 1))
    /\ IsFloatLiteral(SubSeq(chars, IndexOf(chars, "-") + 1, Len(chars)))

\* Twice the midpoint of a two-token range: the sum of its two literals.
RangeSum(chars) ==
    LET low == FloatLiteralValue(SubSeq(chars, 1, IndexOf(chars, "-") - 1))
        high == FloatLiteralValue(SubSeq(chars, IndexOf(chars, "-") + 1, Len(chars)))
    IN  Rat(low.n * high.d + high.n * low.d, low.d * high.d)

\* C1: whenever valid_and_digit returns n for an integer or digit-string
\* answer and the bounds lo, hi, lo <= n <= hi; an answer outside the bounds
\* is rejected, never returned.
C1_ValidAndDigitWithinBounds ==
    (Done("valid_and_digit") /\ IsIntegerAnswer(call.args[1]) /\ ret.ok)
        => (call.args[2] <= ret.val /\ ret.val <= call.args[3])

\* C2: every component score of a PSQI score mapping is an integer in 0..3
\* and the overall score is in 0..21; the component scorers called alone
\* return 0..3 too.
C2_PsqiComponentsInRange ==
    /\ (Done("process.process_psqi_response") /\ ret.ok)
           => /\ \A k \in DOMAIN ret.val.component_scores :
                     ret.val.component_scores[k] \in 0..3
              /\ ret.val.overall_score \in 0..21
    /\ (pc = "done" /\ call.fn \in ComponentNames /\ ret.ok) => ret.val \in 0..3

\* C3: whenever HADS scoring succeeds, the anxiety and the depression total
\* are in 0..21 and the overall score is in 0..42.
C3_HadsTotalsInRange ==
    (Done("process.process_hads_response") /\ ret.ok)
        => /\ ret.val.anxiety_score \in 0..21
           /\ ret.val.depression_score \in 0..21
           /\ ret.val.overall_score \in 0..42

\* The outcomes of the seven PSQI component scorers on the response a, in
\* the order C1..C7.
PsqiComponentOutcomes(a) ==
    << psqi_c1_duration(a), psqi_c2_disturbance(a), psqi_c3_latency(a),
       psqi_c4_day_dysfunction(a), psqi_c5_sleep_efficiency(a),
       psqi_c6_overall_sleep_quality(a), psqi_c7_medication(a) >>

\* What a caller gets of outcomes when failures propagate: the first
\* failure in order, none when there is no failure.
FirstFailure(outcomes) ==
    IF \E i \in 1..Len(outcomes) : ~outcomes[i].ok
    THEN outcomes[CHOOSE i \in 1..Len(outcomes) :
                      ~outcomes[i].ok /\ \A j \in 1..(i - 1) : outcomes[j].ok]
    ELSE Return(NoVal)

\* C4: PSQI scoring is fail-fast: when a component scorer fails,
\* process_psqi_response returns no score mapping, and the failure the caller
\* gets is the one of the first failing component in the order C1..C7; it
\* returns a mapping only when no component fails.
C4_PsqiFailFast ==
    Done("process.process_psqi_response")
        => LET first == FirstFailure(PsqiComponentOutcomes(call.args[1]))
           IN  IF first.ok THEN ret.ok ELSE ret = first

\* C4 happens: the disturbance and the medication component both fail and
\* the caller gets the failure of the disturbance component.
C4_Witness ==
    /\ Done("process.process_psqi_response")
    /\ psqi_c1_duration(call.args[1]).ok
    /\ ~psqi_c2_disturbance(call.args[1]).ok
    /\ ~psqi_c7_medication(call.args[1]).ok
    /\ ~ret.ok
    /\ ret.key = "q5b_wake_during_night"

\* C5: every processor, of process.py and of processors.py, fails when a
\* question-id of its instrument is absent from the response.
C5_MissingAnswerFails ==
    (/\ pc = "done"
     /\ call.fn \in ProcessNames \cup ProcessorsNames
     /\ \E k \in Range(KeysOf(call.fn)) : k \notin DOMAIN call.args[1])
        => ~ret.ok

\* C6: split_the_difference returns an int or float unchanged, and for a
\* string of two numeric tokens separated by one hyphen it returns their
\* arithmetic midpoint.
C6_SplitTheDifferenceMidpoint ==
    Done("split_the_difference")
        => /\ call.args[1].t \in {"int", "float"}
                  => ret.ok /\ RatEq(ret.val, Rat(call.args[1].n, call.args[1].d))
           /\ (call.args[1].t = "str" /\ IsTwoTokenRange(call.args[1].s))
                  => /\ ret.ok
                     /\ RatEq(Rat(2 * ret.val.n, ret.val.d), RangeSum(call.args[1].s))

\* C6 happens: split_the_difference("6-7") has returned 6.5.
C6_Witness ==
    /\ Done("split_the_difference")
    /\ call.args[1] = PyStr(<<"6", "-", "7">>)
    /\ ret.ok
    /\ RatEq(ret.val, Rat(13, 2))

\* C7 as stated: split_the_difference returns the number a string of digits
\* denotes.
C7_DigitStringParsed ==
    (Done("split_the_difference") /\ call.args[1].t = "str" /\ IsDigit(call.args[1].s))
        => ret.ok /\ RatEq(ret.val, RatOfInt(DigitsToInt(call.args[1].s)))

\* C7 as amended: split_the_difference rejects every string of digits with
\* the invalid-value error that names the field, and psqi_c1_duration fails
\* in the same way on sleep hours given as a string of digits.
C7_DigitStringRejected ==
    /\ (Done("split_the_difference") /\ call.args[1].t = "str"
            /\ IsDigit(call.args[1].s))
           => ret = Raise("ValueError", "invalid value", "item")
    /\ (/\ Done("psqi_c1_duration")
        /\ Get(call.args[1], "q4_sleep_hours").t = "str"
        /\ IsDigit(Get(call.args[1], "q4_sleep_hours").s))
           => ret = Raise("ValueError", "invalid value", "q4_sleep_hours")

\* C7 happens: split_the_difference("7") has raised.
C7_Witness ==
    /\ Done("split_the_difference")
    /\ call.args[1] = PyStr(<<"7">>)
    /\ ~ret.ok

\* C8: split_the_difference fails with a ValueError for every input that is
\* not a number, a string of digits or a two-token numeric range.
C8_OtherShapesFail ==
    (/\ Done("split_the_difference")
     /\ ~IsInstanceNumber(call.args[1])
     /\ ~(call.args[1].t = "str" /\ IsDigit(call.args[1].s))
     /\ ~(call.args[1].t = "str" /\ IsTwoTokenRange(call.args[1].s)))
        => (~ret.ok /\ ret.exc = "ValueError")

DisturbanceItemsValid(a) ==
    \A q \in Range(disturbance_questions) :
        /\ q \in DOMAIN a
        /\ IsIntegerAnswer(a[q])
        /\ IntegerOf(a[q]) \in 0..3

RECURSIVE IntegerSum(_, _, _)
IntegerSum(a, qs, i) ==
    IF i = 0 THEN 0 ELSE IntegerSum(a, qs, i - 1) + IntegerOf(a[qs[i]])

\* C10: psqi_c2_disturbance returns the bucket of the sum of its eight
\* items (0 gives 0, 1..8 gives 1, 9..16 gives 2, 17..24 gives 3) and
\* returns no bucket when an item is missing or outside 0..3.
C10_DisturbanceBuckets ==
    Done("psqi_c2_disturbance")
        => /\ ret.ok => DisturbanceItemsValid(call.args[1])
           /\ DisturbanceItemsValid(call.args[1])
                  => LET s == IntegerSum(call.args[1], disturbance_questions, 8)
                     IN  /\ ret.ok
                         /\ s = 0 => ret.val = 0
                         /\ s \in 1..8 => ret.val = 1
                         /\ s \in 9..16 => ret.val = 2
                         /\ s \in 17..24 => ret.val = 3

\* The helper score of a latency of m minutes, m >= 0.
LatencyHelper(m) ==
    IF m.n <= 15 * m.d THEN 0
    ELSE IF m.n <= 30 * m.d THEN 1
    ELSE IF m.n <= 60 * m.d THEN 2
    ELSE 3

\* The score of a sum t in 0..6 of two 0..3 scores.
SumBucket(t) == IF t = 0 THEN 0 ELSE IF t <= 2 THEN 1 ELSE IF t <= 4 THEN 2 ELSE 3

\* The outcome r of psqi_c3_latency agrees with the normalised latency m and
\* the raw item q5a.
LatencyScored(m, q5a, r) ==
    /\ (m.ok /\ m.val.n < 0) => ~r.ok
    /\ r.ok => /\ m.ok /\ m.val.n >= 0
               /\ IsIntegerAnswer(q5a)
               /\ LatencyHelper(m.val) + IntegerOf(q5a) \in 0..6
               /\ r.val = SumBucket(LatencyHelper(m.val) + IntegerOf(q5a))
    /\ (m.ok /\ m.val.n >= 0 /\ IsIntegerAnswer(q5a) /\ IntegerOf(q5a) \in 0..3)
           => r.ok

IsScaleAnswer(v) == IsIntegerAnswer(v) /\ IntegerOf(v) \in 0..3

\* C12: psqi_c4_day_dysfunction returns, for valid items q8 and q9, the
\* score the second stage of psqi_c3_latency gives their sum: 0 gives 0,
\* 1..2 gives 1, 3..4 gives 2, 5..6 gives 3.
C12_DayDysfunctionBuckets ==
    (/\ Done("psqi_c4_day_dysfunction")
     /\ IsScaleAnswer(Get(call.args[1], "q8_trouble_staying_awake"))
     /\ IsScaleAnswer(Get(call.args[1], "q9_low_enthusiasm")))
        => /\ ret = psqi_c3_bucket(
                        IntegerOf(Get(call.args[1], "q8_trouble_staying_awake")),
                        IntegerOf(Get(call.args[1], "q9_low_enthusiasm")))
           /\ ret = Return(SumBucket(
                        IntegerOf(Get(call.args[1], "q8_trouble_staying_awake"))
                            + IntegerOf(Get(call.args[1], "q9_low_enthusiasm"))))

\* C12 happens: q8 = 1 and q9 = 2 sum to 3 and have been scored 2.
C12_Witness ==
    /\ Done("psqi_c4_day_dysfunction")
    /\ Get(call.args[1], "q8_trouble_staying_awake") = PyInt(1)
    /\ Get(call.args[1], "q9_low_enthusiasm") = PyInt(2)
    /\ ret = Return(2)

\* The minutes from bedtime to wake time, as the numerator tn and the
\* denominator td of a fraction, of two normalised points in time.
ElapsedNum(bed, wake) == wake.n * bed.d - bed.n * wake.d

ElapsedDen(bed, wake) == wake.d * bed.d

\* The elapsed time tn/td minutes lies in (0, 24] hours.
ElapsedValid(tn, td) == 0 < tn /\ tn <= 24 * 60 * td

\* The efficiency of h hours of sleep in tn/td minutes in bed is at least p
\* percent.
EfficiencyAtLeast(p, h, tn, td) == 100 * 60 * h.n * td >= p * h.d * tn

\* The sleep-efficiency score of h hours of sleep in tn/td minutes in bed.
EfficiencyBucket(h, tn, td) ==
    IF EfficiencyAtLeast(85, h, tn, td) THEN 0
    ELSE IF EfficiencyAtLeast(75, h, tn, td) THEN 1
    ELSE IF EfficiencyAtLeast(65, h, tn, td) THEN 2
    ELSE 3

\* The outcome r of psqi_c5_sleep_efficiency agrees with the normalised
\* bedtime, wake time and sleep hours.
EfficiencyScored(bed, wake, h, r) ==
    (bed.ok /\ wake.ok /\ h.ok
         /\ ElapsedValid(ElapsedNum(bed.val, wake.val), ElapsedDen(bed.val, wake.val)))
        => r = Return(EfficiencyBucket(h.val, ElapsedNum(bed.val, wake.val),
                                       ElapsedDen(bed.val, wake.val)))

ElapsedInvalid(bed, wake) ==
    /\ bed.ok
    /\ wake.ok
    /\ ~ElapsedValid(ElapsedNum(bed.val, wake.val), ElapsedDen(bed.val, wake.val))

RECURSIVE ReversalSum(_, _, _, _)
ReversalSum(a, qs, reversed, i) ==
    IF i = 0 THEN 0
    ELSE ReversalSum(a, qs, reversed, i - 1)
             + (IF qs[i] \in reversed THEN 3 - IntegerOf(a[qs[i]])
                ELSE IntegerOf(a[qs[i]]))

\* C16: in a HADS score mapping the anxiety score is the sum over A1..A7 in
\* which exactly A4 contributes 3 - value, and the depression score is the
\* sum over D1..D7 in which exactly D1, D2, D3, D6 and D7 contribute
\* 3 - value; every other item contributes its value.
C16_HadsReversalPerItem ==
    (Done("process.process_hads_response") /\ ret.ok)
        => /\ ret.val.anxiety_score
                  = ReversalSum(call.args[1], anxiety_questions, {"A4"}, 7)
           /\ ret.val.depression_score
                  = ReversalSum(call.args[1], depression_questions,
                                {"D1", "D2", "D3", "D6", "D7"}, 7)

\* C16 happens: with every item answered 0 the reversed items contribute 3
\* each and the others 0, so the subscales are 3 and 15.
C16_Witness ==
    /\ Done("process.process_hads_response")
    /\ \A q \in Range(hads_keys) : Get(call.args[1], q) = PyInt(0)
    /\ ret.ok
    /\ ret.val.anxiety_score = 3
    /\ ret.val.depression_score = 15

\* C17: the overall score of a PSQI score mapping is the sum of the seven
\* component scores of the same mapping, and the overall score of a HADS
\* score mapping is the sum of its anxiety and its depression score.
C17_TotalIsSumOfComponents ==
    /\ (Done("process.process_psqi_response") /\ ret.ok)
           => ret.val.overall_score
                  = ret.val.component_scores.C1_duration
                      + ret.val.component_scores.C2_disturbance
                      + ret.val.component_scores.C3_latency
                      + ret.val.component_scores.C4_day_dysfunction
                      + ret.val.component_scores.C5_sleep_efficiency
                      + ret.val.component_scores.C6_overall_sleep_quality
                      + ret.val.component_scores.C7_medication
    /\ (Done("process.process_hads_response") /\ ret.ok)
           => ret.val.overall_score = ret.val.anxiety_score + ret.val.depression_score

\* C17 happens: a HADS response has been scored 17 for anxiety and 6 for
\* depression, 23 overall.
C17_Witness ==
    /\ Done("process.process_hads_response")
    /\ ret.ok
    /\ ret.val.anxiety_score = 17
    /\ ret.val.depression_score = 6
    /\ ret.val.overall_score = 23

\* The answer mapping a without the keys outside ks.
Restrict(a, ks) == [k \in DOMAIN a \cap ks |-> a[k]]

\* The item q of the response a is present and an integer answer in lo..hi.
ItemValid(a, q, lo, hi) ==
    /\ q \in DOMAIN a
    /\ IsIntegerAnswer(a[q])
    /\ lo <= IntegerOf(a[q])
    /\ IntegerOf(a[q]) <= hi

\* C18: simple_response_to_score_map returns the sum of the answers of the
\* listed question-ids, whatever the response holds under other keys, and it
\* fails when a listed item is missing, is no integer or digit-string, or is
\* outside the answer range.
C18_SumOfListedItems ==
    Done("simple_response_to_score_map")
        => /\ ret.ok => ret.val = IntegerSum(call.args[1], call.args[2], Len(call.args[2]))
           /\ ret = simple_response_to_score_map(
                        Restrict(call.args[1], Range(call.args[2])),
                        call.args[2], call.args[3])
           /\ (\E q \in Range(call.args[2]) :
                   ~ItemValid(call.args[1], q, call.args[3][1], call.args[3][2]))
                  => ~ret.ok

\* C19: whenever process_who5_response succeeds, the overall score is the
\* sum of Q1..Q5 and lies in 0..25, and the percentage score is four times
\* the overall score and lies in 0..100; five items answered 3 give 15 and 60.
C19_Who5Percentage ==
    /\ (Done("process.process_who5_response") /\ ret.ok)
           => /\ ret.val.overall_score = IntegerSum(call.args[1], who5_question_ids, 5)
              /\ ret.val.overall_score \in 0..25
              /\ ret.val.percentage_score = 4 * ret.val.overall_score
              /\ ret.val.percentage_score \in 0..100
    /\ (/\ Done("process.process_who5_response")
        /\ call.args[1] = [k \in Range(who5_question_ids) |-> PyInt(3)])
           => ret = Return([overall_score |-> 15, percentage_score |-> 60])

\* The level of a frequency word of D4-4.
FrequencyLevel(word) ==
    IF word = <<"n", "e", "v", "e", "r">> THEN 0
    ELSE IF word = <<"r", "a", "r", "e", "l", "y">> THEN 1
    ELSE IF word = <<"s", "o", "m", "e", "t", "i", "m", "e", "s">> THEN 2
    ELSE IF word = <<"u", "s", "u", "a", "l", "l", "y">> THEN 3
    ELSE 4

\* The adherence answers a are the literal words: "yes" or "no" for the four
\* binary items, one of the five frequency words for D4-4.
DmasWords(a) ==
    /\ \A q \in {"D4-1", "D4-2", "D4-3", "D4-6"} :
           Get(a, q) \in {PyStr(<<"y", "e", "s">>), PyStr(<<"n", "o">>)}
    /\ Get(a, "D4-4") \in {PyStr(<<"n", "e", "v", "e", "r">>), PyStr(<<"r", "a", "r", "e", "l", "y">>),
                            PyStr(<<"s", "o", "m", "e", "t", "i", "m", "e", "s">>),
                            PyStr(<<"u", "s", "u", "a", "l", "l", "y">>), PyStr(<<"a", "l", "w", "a", "y", "s">>)}

\* The number of binary items of a answered "yes".
YesCount(a) ==
    Cardinality({q \in {"D4-1", "D4-2", "D4-3", "D4-6"} : Get(a, q) = PyStr(<<"y", "e", "s">>)})

\* C20: danish_medicine_adherence_scale returns the number of "yes" among
\* D4-1, D4-2, D4-3 and D4-6 plus a quarter of the level 0..4 of D4-4; every
\* score it returns is in [0, 5]; and its outcome is the same with and
\* without the free-text items D4-5 and D4-7.
C20_AdherenceScore ==
    Done("danish_medicine_adherence_scale")
        => /\ DmasWords(call.args[1])
                  => /\ ret.ok
                     /\ RatEq(ret.val,
                              Rat(4 * YesCount(call.args[1])
                                      + FrequencyLevel(Get(call.args[1], "D4-4").s), 4))
           /\ ret.ok => (RatLe(RatOfInt(0), ret.val) /\ RatLe(ret.val, RatOfInt(5)))
           /\ ret = danish_medicine_adherence_scale(
                        Restrict(call.args[1], {"D4-1", "D4-2", "D4-3", "D4-4", "D4-6"}))

\* C20 happens: four "yes" and "always", with both free-text items present,
\* have been scored 5.0.
C20_Witness ==
    /\ Done("danish_medicine_adherence_scale")
    /\ DmasWords(call.args[1])
    /\ YesCount(call.args[1]) = 4
    /\ Get(call.args[1], "D4-4") = PyStr(<<"a", "l", "w", "a", "y", "s">>)
    /\ {"D4-5", "D4-7"} \subseteq DOMAIN call.args[1]
    /\ ret.ok
    /\ RatEq(ret.val, RatOfInt(5))

\* The lower-case word of an answer given in another letter case.
CanonWord(v) ==
    IF v \in {PyStr(<<"Y", "e", "s">>), PyStr(<<"Y", "E", "S">>)} THEN PyStr(<<"y", "e", "s">>)
    ELSE IF v = PyStr(<<"A", "l", "w", "a", "y", "s">>) THEN PyStr(<<"a", "l", "w", "a", "y", "s">>)
    ELSE v

\* The adherence answers a with every word in lower case.
CanonAnswers(a) == [k \in DOMAIN a |-> CanonWord(a[k])]

\* C21: the adherence scale scores a categorical answer alike in every
\* letter case, and it fails, counting nothing as 0, when a binary item is
\* missing, no text or neither yes nor no, or when the frequency item is
\* missing, no text or none of the five frequency words.
C21_AdherenceStrictWords ==
    Done("danish_medicine_adherence_scale")
        => /\ ret = danish_medicine_adherence_scale(CanonAnswers(call.args[1]))
           /\ ~DmasWords(CanonAnswers(call.args[1]))
                  => (~ret.ok /\ ret.exc = "AssertionError")

\* C21 happens: "YES" has been scored like "yes", with the frequency
\* "Always" like "always": three "yes", one "YES" and "Always" give 5.0.
C21_Witness ==
    /\ Done("danish_medicine_adherence_scale")
    /\ \E q \in Range(binary_questions) : Get(call.args[1], q) = PyStr(<<"Y", "E", "S">>)
    /\ Get(call.args[1], "D4-4") = PyStr(<<"A", "l", "w", "a", "y", "s">>)
    /\ ret.ok
    /\ RatEq(ret.val, RatOfInt(5))

\* The score mapping of the record r, an empty mapping when r has none.
ScoresOf(r) ==
    IF "scores" \in DOMAIN r /\ r["scores"] # PyNone THEN r["scores"] ELSE <<>>

\* The score mapping s holds a number under the key k.
HasNumber(s, k) == k \in DOMAIN s /\ s[k].t \in {"int", "float"}

\* The outcome r of get_standardised_overall_score for the instrument id
\* agrees with the score mapping s of the record.
StandardisedAs(id, s, r) ==
    /\ (HasNumber(s, "overall_score") /\ HasNumber(s, "max_score")
            /\ s["max_score"].n # 0)
           => /\ r.ok
              /\ r.val.n * s["overall_score"].d * s["max_score"].n
                     = 100 * s["overall_score"].n * s["max_score"].d * r.val.d
    /\ (\E k \in {"overall_score", "max_score"} : k \notin DOMAIN s \/ s[k] = PyNone)
           => r \in {Raise("AssertionError", m, id) :
                        m \in {"no scores found", "no overall score found",
                               "no max score found"}}
    /\ (HasNumber(s, "overall_score") /\ s["overall_score"].n = 0
            /\ HasNumber(s, "max_score") /\ s["max_score"].n # 0)
           => (r.ok /\ r.val.n = 0)

\* C22: get_standardised_overall_score returns overall_score / max_score *
\* 100 when the record's score mapping holds both, fails with an error that
\* names the instrument when the scores, the overall score or the maximal
\* score is missing, and takes an overall score of 0 as present, giving 0.
C22_StandardisedScore ==
    Done("get_standardised_overall_score")
        => StandardisedAs(call.args[1], ScoresOf(call.args[2]), ret)

\* C22 happens: an overall score of 0 of at most 25 has been standardised to 0.
C22_Witness ==
    /\ Done("get_standardised_overall_score")
    /\ ScoresOf(call.args[2]) = [overall_score |-> PyInt(0), max_score |-> PyInt(25)]
    /\ ret.ok
    /\ ret.val.n = 0

\* C23: every value get_standardised_overall_score returns lies in 0..100,
\* and a record whose overall score is negative or above its maximal score,
\* or whose maximal score is 0 or negative, is rejected.
C23_StandardisedInRange ==
    Done("get_standardised_overall_score")
        => /\ ret.ok => (0 <= ret.val.n /\ ret.val.n <= 100 * ret.val.d)
           /\ (/\ HasNumber(ScoresOf(call.args[2]), "overall_score")
               /\ HasNumber(ScoresOf(call.args[2]), "max_score")
               /\ \/ ScoresOf(call.args[2])["overall_score"].n < 0
                  \/ ScoresOf(call.args[2])["max_score"].n <= 0
                  \/ RatLt(ScoresOf(call.args[2])["max_score"],
                           ScoresOf(call.args[2])["overall_score"]))
                  => ~ret.ok

\* The submission of the call holds the answers and the comments of every
\* questionnaire, and every processor accepts its answers.
Processable(answers, comments) ==
    \A q \in Range(QUESTTIONNAIRE_IDS) :
        /\ Get(answers, q) # PyNone
        /\ Get(comments, q) # PyNone
        /\ processors(q, answers[q]).ok

\* C24: the scores of every record of process_responses are a scored mapping
\* with the total overall_score, never the raw answers passed through, and
\* for D4_DMAS they hold the composite of danish_medicine_adherence_scale.
C24_EveryRecordScored ==
    (Done("process_responses") /\ ret.ok)
        => /\ \A q \in DOMAIN ret.val :
                  /\ "overall_score" \in DOMAIN ret.val[q].scores
                  /\ DOMAIN ret.val[q].scores # DOMAIN ret.val[q].answers
           /\ ret.val["D4_DMAS"].scores["overall_score"]
                  = danish_medicine_adherence_scale(call.args[1]["D4_DMAS"]).val

\* C24 happens: a submission with valid answers throughout has been
\* processed, and the scores of B1_Lifestyle are its raw answers.
C24_Witness ==
    /\ Done("process_responses")
    /\ ret.ok
    /\ call.args[1] = [q \in Range(QUESTTIONNAIRE_IDS) |-> AnswersOf(q, 3)]
    /\ ret.val["B1_Lifestyle"].scores = call.args[1]["B1_Lifestyle"]

\* C28: process_responses is all-or-nothing: it returns a record with
\* answers, comments and scores for exactly the eight questionnaire ids when
\* every questionnaire is present in answers and in comments and every
\* processor accepts its answers, and otherwise it fails and returns no
\* record at all, whatever the questionnaires before the failing one.
C28_AllOrNothing ==
    Done("process_responses")
        => /\ ret.ok = Processable(call.args[1], call.args[2])
           /\ ret.ok => /\ DOMAIN ret.val = Range(QUESTTIONNAIRE_IDS)
                        /\ \A q \in DOMAIN ret.val :
                               DOMAIN ret.val[q] = {"answers", "comments", "scores"}
           /\ ~ret.ok => ret.val = NoVal

\* C28 happens: the HADS part, the last of the list, holds a word, the seven
\* questionnaires before it are valid, and the call has failed.
C28_Witness ==
    /\ Done("process_responses")
    /\ ~ret.ok
    /\ ret.key = "A1"
    /\ \A i \in 1..7 :
           /\ Get(call.args[1], QUESTTIONNAIRE_IDS[i]) # PyNone
           /\ Get(call.args[2], QUESTTIONNAIRE_IDS[i]) # PyNone
           /\ processors(QUESTTIONNAIRE_IDS[i], call.args[1][QUESTTIONNAIRE_IDS[i]]).ok

\* The scale sc declares a range.
HasRange(sc) == "range" \in DOMAIN sc /\ sc["range"] # PyNone

\* The ranges r1 and r2 have the same bounds, as numbers.
SameRange(r1, r2) == RatEq(r1[1], r2[1]) /\ RatEq(r1[2], r2[2])

\* The integer p is the number v without its fractional part.
IsIntegerPart(p, v) ==
    IF v.n >= 0 THEN p * v.d <= v.n /\ v.n < (p + 1) * v.d
    ELSE (p - 1) * v.d < v.n /\ v.n <= p * v.d

\* The outcome r of get_instrument_scales agrees with the scales sc.
ScalesAs(sc, r) ==
    /\ (\E i \in 1..Len(sc) : ~HasRange(sc[i])) => ~r.ok
    /\ (\E i, j \in 1..Len(sc) :
            HasRange(sc[i]) /\ HasRange(sc[j]) /\ ~SameRange(sc[i]["range"], sc[j]["range"]))
           => ~r.ok
    /\ (/\ Len(sc) > 0
        /\ \A i \in 1..Len(sc) : HasRange(sc[i])
        /\ \A i, j \in 1..Len(sc) : SameRange(sc[i]["range"], sc[j]["range"]))
           => /\ r.ok
              /\ r.val[1] = sc
              /\ IsIntegerPart(r.val[2][1], sc[1]["range"][1])
              /\ IsIntegerPart(r.val[2][2], sc[1]["range"][2])

\* C25: get_instrument_scales fails when a scale declares no range or when
\* two scales declare different ranges, whatever the position of the
\* deviating scale, and returns the common range as a pair of integers when
\* all scales declare the same range.
C25_ScaleRanges ==
    (Done("get_instrument_scales") /\ Get(call.args[1], "scales") # PyNone)
        => ScalesAs(call.args[1]["scales"], ret)

\* C25 happens: the first of three scales declares 1..5, the other two 0..4,
\* and the call has failed.
C25_Witness ==
    /\ Done("get_instrument_scales")
    /\ Get(call.args[1], "scales") # PyNone
    /\ Len(call.args[1]["scales"]) = 3
    /\ \A i \in 1..3 : HasRange(call.args[1]["scales"][i])
    /\ call.args[1]["scales"][1]["range"] = <<PyInt(1), PyInt(5)>>
    /\ call.args[1]["scales"][2]["range"] = <<PyInt(0), PyInt(4)>>
    /\ call.args[1]["scales"][3]["range"] = <<PyInt(0), PyInt(4)>>
    /\ ~ret.ok
    /\ ret.exc = "ValueError"

\* The raw answer v is an object that holds a comment.
HasComment(v) == "comment" \in DOMAIN v

\* The answers a and the comments c are those of the raw questionnaires raw.
SplitAs(raw, a, c) ==
    /\ DOMAIN a = DOMAIN raw
    /\ DOMAIN c = DOMAIN raw
    /\ \A id \in DOMAIN raw :
           /\ DOMAIN a[id] = DOMAIN raw[id]
           /\ DOMAIN c[id] = DOMAIN raw[id]
           /\ \A q \in DOMAIN raw[id] :
                  c[id][q] = IF HasComment(raw[id][q]) THEN raw[id][q]["comment"]
                             ELSE PyNone

\* A comment on every question of every questionnaire.
CommentsThroughout ==
    [q \in Range(QUESTTIONNAIRE_IDS) |-> [k \in QuestionsOf(q) |-> PyStr(<<"b">>)]]

\* C26: comments are carried through and never scored:
\* split_answers_and_comments yields the comment of an object unchanged and
\* null for a literal answer, under the question-ids of the raw response; the
\* records of process_responses hold the comments they were given, and the
\* scores are those of the same answers under other comments.
C26_CommentsCarriedThrough ==
    /\ Done("split_answers_and_comments")
           => /\ ret.ok
              /\ SplitAs(GetDefault(call.args[1], "questionnaires", <<>>),
                         ret.val[1], ret.val[2])
    /\ (Done("process_responses") /\ ret.ok)
           => /\ \A q \in DOMAIN ret.val : ret.val[q].comments = call.args[2][q]
              /\ process_responses(call.args[1], CommentsThroughout).ok
              /\ \A q \in DOMAIN ret.val :
                     ret.val[q].scores
                         = process_responses(call.args[1], CommentsThroughout).val[q].scores

\* C26 happens: a WHO5 part with a commented answer and a literal answer has
\* been split, the comment kept and the literal given a null comment.
C26_Witness ==
    /\ Done("split_answers_and_comments")
    /\ "questionnaires" \in DOMAIN call.args[1]
    /\ "WHO5" \in DOMAIN call.args[1]["questionnaires"]
    /\ call.args[1]["questionnaires"]["WHO5"]
           = [Q1 |-> [answer |-> PyInt(3), comment |-> PyStr(<<"b">>)], Q2 |-> PyInt(3)]
    /\ ret.val[1]["WHO5"] = [Q1 |-> PyInt(3), Q2 |-> PyInt(3)]
    /\ ret.val[2]["WHO5"] = [Q1 |-> PyStr(<<"b">>), Q2 |-> PyNone]

\* The questionnaire q is one that process_responses scores.
IsScored(q) == q \notin {"B1_Lifestyle", "C_AreasOfConcern", "D4_DMAS"}

\* The record rec of the questionnaire q as the dashboard reads it: the
\* totals of a score mapping as JSON-like values, without the nested
\* component scores.
DashboardRecord(q, rec) ==
    [answers |-> rec.answers,
     scores |-> IF IsScored(q)
                THEN [k \in DOMAIN rec.scores \ {"component_scores"} |->
                         PyInt(rec.scores[k])]
                ELSE rec.scores]

\* C29: no record of a process_responses result has a max_score among its
\* scores, and get_standardised_overall_score fails on every such record.
C29_NeverStandardised ==
    (Done("process_responses") /\ ret.ok)
        => \A q \in DOMAIN ret.val :
               /\ "max_score" \notin DOMAIN ret.val[q].scores
               /\ ~get_standardised_overall_score(q, DashboardRecord(q, ret.val[q])).ok

\* The outcome r of process.process_psqi_response and the outcome o of the
\* version of processors.py: both fail, or the seven components and the
\* total are the same.
PsqiVersionsAgree(r, o) ==
    /\ r.ok = o.ok
    /\ r.ok => /\ \A c \in DOMAIN r.val.component_scores :
                      r.val.component_scores[c] = o.val[c]
               /\ DOMAIN o.val = DOMAIN r.val.component_scores \cup {"global_score"}
               /\ r.val.overall_score = o.val.global_score

\* The same for the two versions of process_hads_response.
HadsVersionsAgree(r, o) ==
    /\ r.ok = o.ok
    /\ r.ok => /\ r.val.anxiety_score = o.val.anxiety_score
               /\ r.val.depression_score = o.val.depression_score
               /\ r.val.overall_score = o.val.total_score

\* The version of processors.py returns the total and the percentage of the
\* outcome r of process.process_who5_response whenever r is a score mapping.
Who5VersionsAgree(r, o) ==
    r.ok => /\ o.ok
            /\ o.val.total_score = PyInt(r.val.overall_score)
            /\ o.val.percentage_score = PyInt(r.val.percentage_score)

\* C30: the processors of processors.py and of process.py agree: the PSQI
\* and the HADS versions fail together or return the same components and
\* total, and the WHO-5 versions return the same total and percentage on
\* every response that the version of process.py accepts.
C30_VersionsAgree ==
    /\ Done("process.process_psqi_response")
           => PsqiVersionsAgree(ret, processors_process_psqi_response(call.args[1]))
    /\ Done("process.process_hads_response")
           => HadsVersionsAgree(ret, processors_process_hads_response(call.args[1]))
    /\ Done("process.process_who5_response")
           => Who5VersionsAgree(ret, processors_process_who5_response(call.args[1]))

====
